---- MODULE Spec2Model ----
(***************************************************************************)
(* Command registration and dispatch of flask_script.Manager               *)
(* (src/flask_script/__init__.py) and flask_script.commands.Command        *)
(* (src/flask_script/commands.py).                                         *)
(*                                                                         *)
(* The registration state is a heap of objects (Managers and Commands).    *)
(* One process invocation is Manager.run: the argument vector is parsed    *)
(* by the argparse parser tree that Manager.create_parser builds, the      *)
(* application is created, and the command is handled inside the           *)
(* application's request context.  argparse is modelled by what it does    *)
(* with the tokens of a command line: an option consumes its value, an     *)
(* unknown flag is left over, the sub-parser action hands the rest of the  *)
(* line to the chosen sub-parser, a help flag exits 0, an error exits 2.   *)
(***************************************************************************)
EXTENDS Integers, Sequences, FiniteSets, TLC

VARIABLES
    reg,              \* the last registration call: its arguments, the heap before it
    application,      \* the application create_app returned
    objs,             \* the heap: object id -> Manager or Command
    subNsFresh,       \* argparse variant: a sub-parser parses into a fresh namespace
    pc,               \* position of the process inside Manager.run
    argv,             \* sys.argv[1:]
    defaulted,        \* run() appended default_command to sys.argv
    typed,            \* sys.argv[1:] as the process got it
    default_command,  \* the default_command argument of run(); "" for None
    group,            \* the Group(...) call made, with the object or the exception
    argument_group,   \* what Command.create_parser made of the group
    script,           \* the Manager of flaskext/script.py and its run()
    func_handle,      \* func_handle popped from the namespace: the command's id
    printed,          \* what the parser printed: "none", "help", "error"
    helpParser,       \* the manager or command whose parser printed the help
    app_config,       \* keyword arguments for create_app
    kwargs,           \* keyword arguments for the command body
    positional_args,  \* positional arguments for the command body
    factoryCalls,     \* how many times the application factory was called
    factoryKwargs,    \* what the factory was called with
    ctx,              \* the request context: "none", "entered", "left"
    bodyRuns,         \* how many times a command body was started
    bodyInCtx,        \* the body was started while the context was entered
    bodyOutcome,      \* what the body did: return value or exception
    result,           \* Manager.run's local variable result
    exitCode,         \* argument of sys.exit
    escaped           \* the exception that left Manager.run, None if none did

vars == <<objs, reg, application, subNsFresh, pc, argv, defaulted, typed, default_command, group, argument_group, script, func_handle, printed, helpParser, app_config, kwargs,
          positional_args, factoryCalls, factoryKwargs, ctx, bodyRuns,
          bodyInCtx, bodyOutcome, result, exitCode, escaped>>

(***************************************************************************)
(* Bounds of the model.                                                    *)
(***************************************************************************)
\* longest command line (tokens after the program name)
MaxArgs == 3
\* most registration calls made on the managers
MaxRegs == 2
\* longest command line that run() gets together with a default_command
MaxDefaultArgs == 1

(***************************************************************************)
(* Python values.  A value is a record with a tag, so that None, False, 0  *)
(* and the empty string stay different values that are all falsy.          *)
(***************************************************************************)
None == [t |-> "none", v |-> 0]
PyInt(n) == [t |-> "int", v |-> n]
PyBool(b) == [t |-> "bool", v |-> IF b THEN 1 ELSE 0]
\* a string, by its length
PyStr(n) == [t |-> "str", v |-> n]
\* exceptions other than SystemExit
IndexError == [t |-> "exc", v |-> 1]
ArgumentError == [t |-> "exc", v |-> 2]
TypeError == [t |-> "exc", v |-> 3]

\* Python truth value: None, False, 0 and "" (v = 0) are falsy
Truthy(x) == x.t # "none" /\ x.v # 0

(***************************************************************************)
(* Tokens.  Strings are atomic here, so the two things argparse reads off  *)
(* the text of a token are given as sets: the tokens that start with the   *)
(* prefix character '-', and the others.                                   *)
(***************************************************************************)
FlagTokens == {"-h", "--help", "-c", "--config", "-k", "-v", "--foo", "--bar",
               "--count", "--co", "-n", "--name", "--verified", "-d", "--debug",
               "-u", "--url", "-s", "--self", "-x", "--x", "-y", "--y",
               "--no-ipython", "--no-bpython", "-t", "--host", "-p", "--port",
               "--threaded", "--processes", "--passthrough-errors",
               "--no-debug", "-r", "--no-reload"}

\* argparse: arg_string[0] in self.prefix_chars
IsFlag(tok) == tok \in FlagTokens

\* argparse._get_option_tuples: the option strings that start with tok,
\* for the tokens that are a proper prefix of an option string
StartsWith(tok) == IF tok = "--co" THEN {"--config", "--count"} ELSE {}

\* argparse.SUPPRESS: an action without a dest or without a default
SUPPRESS == "==SUPPRESS=="

(***************************************************************************)
(* Option: the arguments of ArgumentParser.add_argument, stored.           *)
(*   args    the flag strings ("-c", "--config") or one positional name    *)
(*   dest    the key of the parsed namespace                               *)
(*   action  "store", "store_true", "store_false", or "custom" (an Action  *)
(*           subclass of the caller, taking one value)                     *)
(*   default the value when the flag is absent (a string; "None" if unset) *)
(***************************************************************************)
Option(args, dest, action, default) ==
    [args |-> args, dest |-> dest, action |-> action, default |-> default]

\* the action classes listed in safe_actions
safe_actions == {"store", "store_const", "store_true", "store_false",
                 "append", "append_const", "count"}

(***************************************************************************)
(* Objects.  Managers and Commands live in one heap and share one record   *)
(* shape; a Command has no commands and no app, a Manager no option_list   *)
(* flags of its own kind.                                                  *)
(*   options          Manager._options, or what Command.get_options gives  *)
(*   commands         Manager._commands: name -> object id                 *)
(*   parent           Manager.parent: object id, NoParent for None         *)
(*   app              "factory" (a callable), "instance" (a Flask object)  *)
(*   capture_all_args the attribute of that name on a Command              *)
(*   accepts_parents  the command's create_parser accepts parents=         *)
(*   cls              the name of the object's class                       *)
(*   is_class         the object is the class itself, not an instance      *)
(*   name, namespace  the attributes of that name, "" when it has none     *)
(*   run              the function that is the command's body              *)
(*   option_list      what self.option_list is: "instance" (a list set on  *)
(*                    the instance), "Command" (the list of class Command, *)
(*                    inherited), "override" (still that list, but         *)
(*                    get_options is overridden and gives options),        *)
(*                    "tuple" (a tuple on the subclass)                    *)
(***************************************************************************)
NoParent == 0
NoHandle == 0
EmptyMap == [n \in {} |-> 0]
Root == 1
\* the heap slot of class Command, whose options are Command.option_list
CommandClass == 2

\* Manager.__init__ without default commands
Manager(app) ==
    [kind |-> "manager", options |-> <<>>, commands |-> EmptyMap,
     parent |-> NoParent, app |-> app,
     capture_all_args |-> FALSE, accepts_parents |-> TRUE,
     cls |-> "Manager", is_class |-> FALSE, name |-> "", namespace |-> "",
     run |-> "", option_list |-> "instance"]

\* a Command instance: option_list, capture_all_args, and whether its
\* create_parser takes the parents keyword (Command.create_parser does)
Command(option_list, capture, accepts) ==
    [kind |-> "command", options |-> option_list, commands |-> EmptyMap,
     parent |-> NoParent, app |-> "none",
     capture_all_args |-> capture, accepts_parents |-> accepts,
     cls |-> "Command", is_class |-> FALSE, name |-> "", namespace |-> "",
     run |-> "Command.run", option_list |-> "override"]

\* a subclass of Command: its class name, its run and its option_list
Subclass(obj, cls, option_list) ==
    [obj EXCEPT !.cls = cls, !.run = cls, !.option_list = option_list]

\* class Command itself, as the holder of Command.option_list = []
CommandClassObject ==
    [Command(<<>>, FALSE, TRUE) EXCEPT !.kind = "class", !.is_class = TRUE]

\* the heap after Manager(app): the manager and class Command
Heap(app) == (Root :> Manager(app)) @@ (CommandClass :> CommandClassObject)

\* Command.add_option, line 106, fails: self.option_list is a tuple
Command_add_option_raises(h, c) == h[c].option_list = "tuple"

\* Command.add_option: self.option_list.append(option); the list is the
\* one of class Command unless the instance was given a list of its own
Command_add_option(h, c, opt) ==
    IF Command_add_option_raises(h, c) THEN h
    ELSE IF h[c].option_list = "instance"
    THEN [h EXCEPT ![c].options = Append(@, opt)]
    ELSE [h EXCEPT ![CommandClass].options = Append(@, opt)]

\* mutant of CommandOptions: the list of class Command for every command
CommandOptions_class(h, c) == h[CommandClass].options

\* Command.get_options of command c
CommandOptions(h, c) ==
    IF h[c].option_list = "Command" THEN h[CommandClass].options ELSE h[c].options

\* type(command).__name__
TypeName(obj) == IF obj.is_class THEN "type" ELSE obj.cls

\* str.lower, on the class names of the model
Lower(s) ==
    CASE s = "SimpleCommand" -> "simplecommand"
      [] s = "NamedCommand" -> "namedcommand"
      [] s = "ExplicitNamedCommand" -> "explicitnamedcommand"
      [] s = "NamespacedCommand" -> "namespacedcommand"
      [] s = "Command" -> "command"
      [] s = "Manager" -> "manager"
      [] OTHER -> s

\* re.sub(r'command$', '', name)
StripCommand(s) ==
    CASE s = "simplecommand" -> "simple"
      [] s = "namedcommand" -> "named"
      [] s = "explicitnamedcommand" -> "explicitnamed"
      [] s = "namespacedcommand" -> "namespaced"
      [] s = "command" -> ""
      [] OTHER -> s

\* allocation of a new object
NewId(h) == Cardinality(DOMAIN h) + 1
Alloc(h, obj) == h @@ (NewId(h) :> obj)

\* Manager.add_option: self._options.append(Option(...))
add_option(h, m, option) ==
    [h EXCEPT ![m].options = Append(@, option)]

\* dict assignment d[name] = id
SetItem(d, name, id) == [n \in DOMAIN d \cup {name} |-> IF n = name THEN id ELSE d[n]]

\* Manager.add_command, lines 204-217: the name the command goes under;
\* name = "" stands for a call without a name
CommandName(obj, name) ==
    IF name # "" THEN name
    ELSE IF obj.name # "" THEN obj.name
    ELSE StripCommand(Lower(TypeName(obj)))

\* mutant of CommandNamespace: the attribute before the keyword
CommandNamespace_attr(obj, namespace) ==
    IF obj.namespace # "" THEN obj.namespace ELSE namespace

\* Manager.add_command, lines 225-227: the namespace in force;
\* namespace = "" stands for a call without the keyword
CommandNamespace(obj, namespace) ==
    IF namespace # "" THEN namespace ELSE obj.namespace

\* line 233: self._commands[namespace] has no _commands (AttributeError)
add_command_raises(h, m, name, id, namespace) ==
    LET ns == CommandNamespace(h[id], namespace)
    IN  /\ ns # ""
        /\ ns \in DOMAIN h[m].commands
        /\ h[h[m].commands[ns]].kind # "manager"

\* Manager.add_command(name, command, namespace=...): the heap it leaves,
\* also when line 233 raises
add_command(h, m, name, id, namespace) ==
    LET nm == CommandName(h[id], name)
        h1 == IF h[id].kind = "manager" /\ ~h[id].is_class
              THEN [h EXCEPT ![id].parent = m] ELSE h
        cmd == IF h[id].is_class THEN NewId(h1) ELSE id
        h2 == IF h[id].is_class THEN Alloc(h1, [h1[id] EXCEPT !.is_class = FALSE]) ELSE h1
        ns == CommandNamespace(h2[cmd], namespace)
    IN  IF ns # ""
        THEN LET known == ns \in DOMAIN h2[m].commands
                 nsId  == IF known THEN h2[m].commands[ns] ELSE NewId(h2)
                 h3 == IF known THEN h2
                       ELSE LET a == Alloc(h2, [Manager("none") EXCEPT !.parent = m])
                            IN  [a EXCEPT ![m].commands = SetItem(@, ns, nsId)]
             IN  IF h3[nsId].kind # "manager" THEN h3
                 ELSE [h3 EXCEPT ![nsId].commands = SetItem(@, nm, cmd)]
        ELSE [h2 EXCEPT ![m].commands = SetItem(@, nm, cmd)]

\* Manager.get_options
get_options(h, m) ==
    IF h[m].parent # NoParent THEN h[h[m].parent].options ELSE h[m].options

\* no Group(...) call yet, no argparse group yet
NoGroup == [kind |-> "none"]

\* flaskext/script.py is not in use
NoScript == [pc |-> "none"]

\* mutant of the test of Group.__init__: only a title clashes
GroupClash_title(title, description, exclusive, required) ==
    Truthy(title) /\ (Truthy(required) \/ Truthy(exclusive))

\* Group.__init__, lines 47-48: (title or description) and (required or
\* exclusive)
GroupClash(title, description, exclusive, required) ==
    (Truthy(title) \/ Truthy(description))
        /\ (Truthy(required) \/ Truthy(exclusive))

\* Group.__init__: the object, or the TypeError of lines 49-50
Group(options, title, description, exclusive, required) ==
    IF GroupClash(title, description, exclusive, required)
    THEN [kind |-> "raise", value |-> TypeError]
    ELSE [kind |-> "group", option_list |-> options, title |-> title,
          description |-> description, exclusive |-> exclusive,
          required |-> required]

\* Command.create_parser, lines 120-131: the argparse group made of a
\* Group, with the arguments of its options
create_group(option) ==
    IF Truthy(option.exclusive)
    THEN [kind |-> "mutually_exclusive", required |-> option.required,
          actions |-> [k \in DOMAIN option.option_list |->
                          option.option_list[k].args]]
    ELSE [kind |-> "argument_group", title |-> option.title,
          description |-> option.description,
          actions |-> [k \in DOMAIN option.option_list |->
                          option.option_list[k].args]]

\* Manager.create_app: the manager whose app builds the application
RECURSIVE AppOwner(_, _)
AppOwner(h, m) == IF h[m].parent # NoParent THEN AppOwner(h, h[m].parent) ELSE m

(***************************************************************************)
(* The default commands and the decorators.  A function is                 *)
(*   name      its __name__                                                *)
(*   id        which function it is                                        *)
(*   args      its parameter names, without the receiver of a method       *)
(*   defaults  the defaults of its last parameters, written as in the      *)
(*             source text; "True" and "False" are the booleans            *)
(*   bound     it is a bound method                                        *)
(***************************************************************************)
Shell ==
    Subclass(Command(<<Option(<<"--no-ipython">>, "no_ipython", "store_true", "False"),
                       Option(<<"--no-bpython">>, "no_bpython", "store_true", "False")>>,
                     FALSE, TRUE),
             "Shell", "override")

Server ==
    Subclass(Command(<<Option(<<"-t", "--host">>, "host", "store", "127.0.0.1"),
                       Option(<<"-p", "--port">>, "port", "store", "5000"),
                       Option(<<"--threaded">>, "threaded", "store_true", "False"),
                       Option(<<"--processes">>, "processes", "store", "1"),
                       Option(<<"--passthrough-errors">>, "passthrough_errors",
                              "store_true", "False"),
                       Option(<<"-d", "--no-debug">>, "use_debugger", "store_false", "True"),
                       Option(<<"-r", "--no-reload">>, "use_reloader", "store_false", "True")>>,
                     FALSE, TRUE),
             "Server", "override")

\* Manager.add_default_commands
add_default_commands(h, m) ==
    LET h1 == add_command(Alloc(h, Shell), m, "shell", NewId(h), "")
    IN  add_command(Alloc(h1, Server), m, "runserver", NewId(h1), "")

Function(name, id, args, defaults, bound) ==
    [name |-> name, id |-> id, args |-> args, defaults |-> defaults, bound |-> bound]

\* inspect.getargspec(func): args and defaults; the receiver of a bound
\* method is among the args
getargspec(func) ==
    [args |-> (IF func.bound THEN <<"self">> ELSE <<>>) \o func.args,
     defaults |-> func.defaults]

\* dict(izip(reversed(args), reversed(defaults))): the args with a default
HasDefault(spec, i) == i > Len(spec.args) - Len(spec.defaults)
DefaultOf(spec, i) == spec.defaults[i - (Len(spec.args) - Len(spec.defaults))]

\* '-%s' % arg[0] and '--%s' % arg, on the parameter names of the model
ShortFlag(arg) ==
    CASE arg = "name" -> "-n" [] arg = "verified" -> "-v" [] arg = "debug" -> "-d"
      [] arg = "url" -> "-u" [] arg = "self" -> "-s" [] arg = "x" -> "-x"
      [] arg = "y" -> "-y"
LongFlag(arg) ==
    CASE arg = "name" -> "--name" [] arg = "verified" -> "--verified"
      [] arg = "debug" -> "--debug" [] arg = "url" -> "--url"
      [] arg = "self" -> "--self" [] arg = "x" -> "--x" [] arg = "y" -> "--y"

\* isinstance(default, bool)
IsBool(default) == default \in {"True", "False"}

\* mutant of CommandOption: the short form is the flag's dest
CommandOption_nodest(spec, i) ==
    LET arg == spec.args[i]
    IN  IF HasDefault(spec, i)
        THEN Option(<<ShortFlag(arg), LongFlag(arg)>>, ShortFlag(arg),
                    IF IsBool(DefaultOf(spec, i)) THEN "store_true" ELSE "store",
                    DefaultOf(spec, i))
        ELSE Option(<<arg>>, arg, "store", "None")

\* Manager.command, lines 258-278: the Option of the i-th arg
CommandOption(spec, i) ==
    LET arg == spec.args[i]
    IN  IF HasDefault(spec, i)
        THEN Option(<<ShortFlag(arg), LongFlag(arg)>>, arg,
                    IF IsBool(DefaultOf(spec, i)) THEN "store_true" ELSE "store",
                    DefaultOf(spec, i))
        ELSE Option(<<arg>>, arg, "store", "None")

\* the Command() the decorators make: run is the function, option_list a
\* list of its own
FunctionCommand(func, options) ==
    [Command(options, FALSE, TRUE) EXCEPT !.run = func.id, !.option_list = "instance"]

\* Manager.command(func): the heap it leaves
command(h, m, func) ==
    LET spec == getargspec(func)
        options == [i \in 1..Len(spec.args) |-> CommandOption(spec, i)]
    IN  add_command(Alloc(h, FunctionCommand(func, options)), m, func.name, NewId(h), "")

\* Manager.option(...)(func), line 318: the entry has no option_list that
\* can be appended to (a Manager, or a tuple)
option_raises(h, m, func) ==
    /\ func.name \in DOMAIN h[m].commands
    /\ LET c == h[m].commands[func.name]
       IN  h[c].kind = "manager" \/ h[c].option_list = "tuple"

\* Manager.option(*args, **kwargs)(func): the heap it leaves
option(h, m, opt, func) ==
    LET h1 == IF func.name \notin DOMAIN h[m].commands
              THEN add_command(Alloc(h, FunctionCommand(func, <<>>)), m, func.name,
                               NewId(h), "")
              ELSE h
        c == h1[m].commands[func.name]
    IN  IF option_raises(h, m, func) THEN h1
        ELSE IF h1[c].option_list = "instance"
        THEN [h1 EXCEPT ![c].options = Append(@, opt)]
        ELSE [h1 EXCEPT ![CommandClass].options = Append(@, opt)]

(***************************************************************************)
(* The parser tree of Manager.create_parser.  A parser is the sequence of  *)
(* its actions, in the order argparse adds them: the help action, the      *)
(* actions of the parents, then the parser's own.  An action is            *)
(*   flags   its option strings (empty for a positional)                   *)
(*   dest, default                                                         *)
(*   kind    "help", "positional" or the Option's action                   *)
(***************************************************************************)
Range(f) == {f[i] : i \in DOMAIN f}

\* ArgumentParser(add_help=True): add_argument('-h', '--help', action='help')
HelpAction ==
    [flags |-> {"-h", "--help"}, dest |-> SUPPRESS, kind |-> "help", default |-> SUPPRESS]

\* parser.add_argument(*option.args, **option.kwargs)
add_argument(opt) ==
    IF IsFlag(opt.args[1])
    THEN [flags |-> Range(opt.args), dest |-> opt.dest,
          kind |-> opt.action, default |-> opt.default]
    ELSE [flags |-> {}, dest |-> opt.dest,
          kind |-> "positional", default |-> opt.default]

AddArguments(options) == [i \in DOMAIN options |-> add_argument(options[i])]

\* Manager.create_parser: options_parser, the parent of every sub-parser
OptionsParser(h, m) == AddArguments(get_options(h, m))

\* Manager.create_parser: the parser of manager m itself
ManagerActions(h, m) == <<HelpAction>> \o OptionsParser(h, m)

\* Command.create_parser called from Manager.create_parser of m: with
\* parents=[options_parser], or without when the command does not take it
CommandActions(h, m, c) ==
    <<HelpAction>>
    \o (IF h[c].accepts_parents THEN OptionsParser(h, m) ELSE <<>>)
    \o AddArguments(CommandOptions(h, c))

ParserActions(h, node, m) ==
    IF h[node].kind = "manager" THEN ManagerActions(h, node)
    ELSE CommandActions(h, m, node)

\* argparse raises ArgumentError("conflicting option strings") when an
\* option string is added twice to one parser
Conflict(actions) ==
    \E i, j \in DOMAIN actions : i < j /\ actions[i].flags \cap actions[j].flags # {}

\* Manager.create_parser builds every sub-parser, so a conflict anywhere
\* in the tree raises
RECURSIVE create_parser_raises(_, _)
create_parser_raises(h, m) ==
    \/ Conflict(ManagerActions(h, m))
    \/ \E n \in DOMAIN h[m].commands :
          LET c == h[m].commands[n]
          IN  IF h[c].kind = "manager" THEN create_parser_raises(h, c)
              ELSE Conflict(CommandActions(h, m, c))

(***************************************************************************)
(* ArgumentParser.parse_known_args.  The result is                         *)
(*   status  "ok", "help" (help printed, SystemExit(0)) or "error"         *)
(*           (usage and message printed, SystemExit(2))                    *)
(*   ns      the namespace, without func_handle                            *)
(*   handle  func_handle: the id of the command whose parser set it        *)
(*   extras  the tokens no action consumed, in command-line order          *)
(***************************************************************************)
EmptyNs == [d \in {} |-> ""]

ParseResult(status, ns, hd, extras) ==
    [status |-> status, ns |-> ns, handle |-> hd, extras |-> extras]

\* parsing ends in SystemExit; parser is the one that printed the help
ParseStop(status) ==
    [status |-> status, ns |-> EmptyNs, handle |-> NoHandle, extras |-> <<>>,
     parser |-> NoHandle]

\* mutant of print_help: the help of the top-level parser
print_help_top(node) == [ParseStop("help") EXCEPT !.parser = Root]

\* _HelpAction.__call__: parser.print_help(); parser.exit()
print_help(node) == [ParseStop("help") EXCEPT !.parser = node]

\* "add any action defaults that aren't present": the first action of a
\* dest gives the default
SetDefaults(ns, actions) ==
    LET dests == {actions[i].dest : i \in DOMAIN actions} \ {SUPPRESS}
        First(d) == CHOOSE i \in DOMAIN actions :
                        /\ actions[i].dest = d
                        /\ \A j \in DOMAIN actions : actions[j].dest = d => i <= j
    IN  [d \in DOMAIN ns \cup dests |->
            IF d \in DOMAIN ns THEN ns[d] ELSE actions[First(d)].default]

SetAttr(ns, dest, value) ==
    [d \in DOMAIN ns \cup {dest} |-> IF d = dest THEN value ELSE ns[d]]

Positionals(actions) == SelectSeq(actions, LAMBDA a : a.kind = "positional")

\* _SubParsersAction.__call__: the attributes of the sub-parser's
\* namespace are set on the namespace of the parser that holds it
MergeNs(ns, sub) ==
    [d \in DOMAIN ns \cup DOMAIN sub |-> IF d \in DOMAIN sub THEN sub[d] ELSE ns[d]]

\* argparse._parse_optional: the actions a flag token selects, by its
\* option string or else as an abbreviation of a long option string
Matches(actions, tok) ==
    LET exact == {k \in DOMAIN actions : tok \in actions[k].flags}
    IN  IF exact # {} THEN exact
        ELSE {k \in DOMAIN actions : actions[k].flags \cap StartsWith(tok) # {}}

\* "ambiguous option: could match ...": raised while the tokens are
\* classified, before any action runs
Ambiguous(actions, args) ==
    \E i \in DOMAIN args : IsFlag(args[i]) /\ Cardinality(Matches(actions, args[i])) > 1

RECURSIVE Scan(_, _, _, _, _, _, _, _)
RECURSIVE parse_known_args(_, _, _, _, _)

\* the loop of parse_known_args over the tokens, from token i on
Scan(h, node, m, args, i, ns, extras, npos) ==
    LET actions == ParserActions(h, node, m)
        isCmd == h[node].kind = "command"
        pos == Positionals(actions)
    IN
    IF i > Len(args)
    THEN IF isCmd /\ npos < Len(pos)
         THEN ParseStop("error")                   \* a required positional is missing
         ELSE ParseResult("ok", ns, IF isCmd THEN node ELSE NoHandle, extras)
    ELSE
    LET tok == args[i] IN
    IF IsFlag(tok)
    THEN IF Matches(actions, tok) # {}
         THEN LET a == actions[CHOOSE k \in Matches(actions, tok) : TRUE]
              IN  IF a.kind = "help" THEN print_help(node)
                  ELSE IF a.kind = "store_true"
                  THEN Scan(h, node, m, args, i + 1, SetAttr(ns, a.dest, "True"), extras, npos)
                  ELSE IF a.kind = "store_false"
                  THEN Scan(h, node, m, args, i + 1, SetAttr(ns, a.dest, "False"), extras, npos)
                  ELSE IF i + 1 <= Len(args) /\ ~IsFlag(args[i + 1])
                  THEN Scan(h, node, m, args, i + 2, SetAttr(ns, a.dest, args[i + 1]), extras, npos)
                  ELSE ParseStop("error")          \* expected one argument
         ELSE Scan(h, node, m, args, i + 1, ns, Append(extras, tok), npos)
    ELSE IF isCmd
    THEN IF npos < Len(pos)
         THEN Scan(h, node, m, args, i + 1, SetAttr(ns, pos[npos + 1].dest, tok), extras, npos + 1)
         ELSE Scan(h, node, m, args, i + 1, ns, Append(extras, tok), npos)
    ELSE \* the sub-parsers action takes the token and the rest of the line
         IF tok \notin DOMAIN h[node].commands
         THEN ParseStop("error")                   \* invalid choice
         ELSE LET r == parse_known_args(h, h[node].commands[tok], node,
                                        SubSeq(args, i + 1, Len(args)),
                                        IF subNsFresh THEN EmptyNs ELSE ns)
              IN  IF r.status # "ok" THEN r
                  ELSE ParseResult("ok", MergeNs(ns, r.ns), r.handle, extras \o r.extras)

parse_known_args(h, node, m, args, ns) ==
    IF Ambiguous(ParserActions(h, node, m), args) THEN ParseStop("error")
    ELSE Scan(h, node, m, args, 1, SetDefaults(ns, ParserActions(h, node, m)), <<>>, 0)

\* ArgumentParser.parse_args: parse_known_args, and an error when tokens
\* are left over
parse_args(h, args) ==
    LET r == parse_known_args(h, Root, Root, args, EmptyNs)
    IN  IF r.status = "ok" /\ Len(r.extras) > 0 THEN ParseStop("error") ELSE r

(***************************************************************************)
(* Manager.handle up to the call of create_app (lines 340-380).            *)
(*   kind  "raise"    an exception other than SystemExit leaves handle     *)
(*         "return"   handle returns value without dispatching             *)
(*         "exit"     the parser raised SystemExit(value)                  *)
(*         "dispatch" the command is resolved and its arguments are bound  *)
(***************************************************************************)
\* mutant of parser_exit_code: an error exits 1
parser_exit_code_one(status) == IF status = "help" THEN PyInt(0) ELSE PyInt(1)

\* ArgumentParser.print_help then exit(0); ArgumentParser.error: exit(2)
parser_exit_code(status) == IF status = "help" THEN PyInt(0) ELSE PyInt(2)

HandleStop(kind, value, out) ==
    [kind |-> kind, value |-> value, printed |-> out, parser |-> NoHandle,
     func_handle |-> NoHandle,
     app_config |-> EmptyNs, kwargs |-> EmptyNs, positional_args |-> <<>>]

Restrict(ns, keys) == [d \in DOMAIN ns \cap keys |-> ns[d]]

\* app_config_keys: the dests of the top-level parser's safe actions
app_config_keys(h) ==
    LET actions == ManagerActions(h, Root)
    IN  {actions[i].dest : i \in {k \in DOMAIN actions : actions[k].kind \in safe_actions}}

\* mutant of RejectsLeftover: parse_args lets the leftover tokens pass
RejectsLeftover_pass(h, args) == FALSE

\* line 377, for a command that is not capture_all_args:
\* app_parser.parse_args(args) raises SystemExit(2) on leftover tokens
RejectsLeftover(h, args) == parse_args(h, args).status # "ok"

\* mutant of no_args_result: print_help() without the return value
no_args_result_none == None

\* line 346: return 2
no_args_result == PyInt(2)

\* line 372: positional_args = [remaining_args]
capture_positional(extras) == <<extras>>

handle(h, args) ==
    IF create_parser_raises(h, Root)
    THEN HandleStop("raise", ArgumentError, "none")
    ELSE IF Len(args) = 0
    THEN [HandleStop("return", no_args_result, "help")  \* print_help(); return 2
             EXCEPT !.parser = Root]
    ELSE
    LET r == parse_known_args(h, Root, Root, args, EmptyNs) IN
    IF r.status # "ok"
    THEN [HandleStop("exit", parser_exit_code(r.status), r.status) EXCEPT !.parser = r.parser]
    ELSE IF r.handle = NoHandle                         \* error('too few arguments')
    THEN HandleStop("exit", parser_exit_code("error"), "error")
    ELSE
    LET keys == app_config_keys(h)
        capture == h[r.handle].capture_all_args
    IN  IF ~capture /\ Len(r.extras) > 0 /\ RejectsLeftover(h, args)
        THEN HandleStop("exit", parser_exit_code("error"), "error")
        ELSE [kind |-> "dispatch", value |-> None, printed |-> "none", parser |-> NoHandle,
              func_handle |-> r.handle,
              app_config |-> Restrict(r.ns, keys),
              kwargs |-> Restrict(r.ns, DOMAIN r.ns \ keys),
              positional_args |-> IF capture THEN capture_positional(r.extras) ELSE <<>>]

\* mutant of ExitArgument: sys.exit(result)
ExitArgument_raw(res) == res

\* sys.exit(result or 0)
ExitArgument(res) == IF Truthy(res) THEN res ELSE PyInt(0)

(***************************************************************************)
(* The registered managers the process starts from: what a manage.py has   *)
(* built, by add_option and add_command, when it calls Manager.run.        *)
(***************************************************************************)
\* manager.add_command(name, obj) with a newly made object
Register(h, m, name, obj) == add_command(Alloc(h, obj), m, name, NewId(h), "")

OptConfig == Option(<<"-c", "--config">>, "config_name", "store", "Development")
OptVerbose == Option(<<"-v">>, "verbose", "custom", "None")

SimpleCommand == Subclass(Command(<<>>, FALSE, TRUE), "SimpleCommand", "Command")
CommandWithCatchAll ==
    Subclass(Command(<<Option(<<"--foo">>, "foo", "store_true", "False")>>, TRUE, TRUE),
             "CommandWithCatchAll", "override")
CommandWithArgs ==
    Subclass(Command(<<Option(<<"name">>, "name", "store", "None")>>, FALSE, TRUE),
             "CommandWithArgs", "tuple")
\* a catch-all command with a long option that shares a prefix with the
\* manager's --config
CommandWithCount ==
    Command(<<Option(<<"--count">>, "count", "store_true", "False")>>, TRUE, TRUE)
\* a command whose create_parser(self, prog) takes no parents keyword
LegacyCommand == Command(<<>>, FALSE, FALSE)
\* a command option with the dest of the manager's option
CommandSameDest ==
    Command(<<Option(<<"-k">>, "config_name", "store", "cmddflt")>>, FALSE, TRUE)
\* a command option with an option string of the manager's option
CommandSameFlag ==
    Command(<<Option(<<"-c">>, "colour", "store", "None")>>, FALSE, TRUE)

FactoryManager == add_option(Heap("factory"), Root, OptConfig)

ManagerBasic ==
    Register(Register(FactoryManager, Root, "simple", SimpleCommand),
             Root, "catch", CommandWithCatchAll)

ManagerSub ==
    LET h1 == Alloc(FactoryManager, Manager("none"))
        sub == NewId(FactoryManager)
        h2 == Register(h1, sub, "inner", SimpleCommand)
        h3 == add_command(h2, Root, "sub", sub, "")
    IN  Register(h3, Root, "old", LegacyCommand)

ManagerSameDest == Register(FactoryManager, Root, "same", CommandSameDest)

ManagerSameFlag == Register(FactoryManager, Root, "clash", CommandSameFlag)

ManagerCustom ==
    Register(Register(add_option(Heap("instance"), Root, OptVerbose),
                      Root, "simple", SimpleCommand),
             Root, "hello", CommandWithArgs)

ManagerAbbrev == Register(FactoryManager, Root, "tally", CommandWithCount)

\* a manager made with an application object, not a factory, and a global
\* option
ManagerInstance ==
    Register(add_option(Heap("instance"), Root, OptConfig), Root, "only", SimpleCommand)

OptUrl == Option(<<"-u", "--url">>, "url", "store", "None")

FunctionShell == Function("shell", "shell()", <<"name", "url">>, <<"None">>, FALSE)
FunctionVerify == Function("verify", "verify()", <<"verified", "debug">>, <<"False", "True">>, FALSE)
FunctionTwo == Function("two", "two()", <<"x", "y">>, <<>>, FALSE)
\* def one(x)
FunctionOne == Function("one", "one()", <<"x">>, <<>>, FALSE)
FunctionZero == Function("zero", "zero()", <<>>, <<>>, FALSE)
\* sometest.hello of class SomeTest: def hello(self, name)
MethodHello == Function("hello", "SomeTest.hello", <<"name">>, <<>>, TRUE)

\* CommandWithDynamicOptions(default_name): get_options() makes the option
\* with the default of the instance
CommandWithDynamicOptions(default_name) ==
    Subclass(Command(<<Option(<<"-n", "--name">>, "name", "store", default_name)>>,
                     FALSE, TRUE),
             "CommandWithDynamicOptions", "override")

\* two instances with different defaults
ManagerDynamic ==
    Register(Register(Heap("factory"), Root, "simple", CommandWithDynamicOptions("Fred")),
             Root, "other", CommandWithDynamicOptions("Joe"))

\* @manager.option('-n', '--name', dest='name')
\* @manager.option('-u', '--url', dest='url')
\* def greet(name, url): the lower decorator registers the command, the
\* upper one adds its option to the registered command
OptName == Option(<<"-n", "--name">>, "name", "store", "None")
FunctionGreet == Function("greet", "greet()", <<"name", "url">>, <<>>, FALSE)
ManagerOptions ==
    option(option(Heap("factory"), Root, OptUrl, FunctionGreet), Root, OptName, FunctionGreet)

\* a manager and a second manager, with one command, that no add_command
\* has registered: the script hands it to run(commands=...)
ManagerMerge ==
    LET h1 == Alloc(FactoryManager, Manager("none"))
    IN  Register(h1, NewId(FactoryManager), "deep", SimpleCommand)

\* a manager whose only command comes from @command on a function with
\* two boolean defaults
ManagerVerify == command(Heap("factory"), Root, FunctionVerify)

\* commands from @command on functions without defaults
ManagerPositional ==
    command(command(command(FactoryManager, Root, FunctionZero), Root, FunctionOne),
            Root, FunctionTwo)

\* a command from @command on a bound method
ManagerMethod == command(FactoryManager, Root, MethodHello)

ManagerEmpty == Heap("factory")

Managers == {ManagerBasic, ManagerSub, ManagerSameDest, ManagerSameFlag,
             ManagerCustom, ManagerAbbrev, ManagerInstance, ManagerEmpty,
             ManagerVerify, ManagerPositional, ManagerMethod,
             ManagerDynamic, ManagerOptions, ManagerMerge}

DeclaredFlags(h) ==
    UNION {UNION {Range(h[o].options[i].args) : i \in DOMAIN h[o].options} : o \in DOMAIN h}

\* a flag no parser declares: a prefix that two declared long options
\* share when there is one, else --bar
UndeclaredFlags(h) ==
    LET shared == {t \in {"--co"} : Cardinality(StartsWith(t) \cap DeclaredFlags(h)) > 1}
    IN  IF shared # {} THEN shared ELSE {"--bar"}

\* the short and the long form of the flags @command derived
DerivedFlags(h) ==
    UNION {UNION {Range(h[o].options[i].args) : i \in DOMAIN h[o].options} :
              o \in {c \in DOMAIN h : h[c].kind = "command" /\ h[c].option_list = "instance"}}

\* the tokens a command line is made of: the help flag, an undeclared flag,
\* a plain word, every declared flag (both forms of a derived one) and
\* every registered name
Tokens(h) ==
    {"-h", "--help", "P"} \cup UndeclaredFlags(h)
    \cup UNION {DOMAIN h[o].commands : o \in DOMAIN h}
    \cup (FlagTokens \cap DerivedFlags(h))
    \cup (FlagTokens \cap UNION {{h[o].options[i].args[1] : i \in DOMAIN h[o].options} :
                                    o \in DOMAIN h})

ArgVectors(h) == UNION {[1..n -> Tokens(h)] : n \in 0..MaxArgs}

\* default_command of run(): "" stands for None
DefaultCommands(h) == {""} \cup DOMAIN h[Root].commands

\* what a command body does: return a value, raise, or call sys.exit
BodyOutcomes ==
    {[kind |-> "return", value |-> v] :
        v \in {None, PyInt(0), PyInt(3), PyBool(FALSE), PyStr(0)}}
    \cup {[kind |-> "raise", value |-> IndexError],
          [kind |-> "SystemExit", value |-> PyInt(3)]}

NoOutcome == [kind |-> "none", value |-> None]

\* no registration call yet
NoFunction == Function("", "", <<>>, <<>>, FALSE)
NoOption == Option(<<>>, "", "", "")
NoReg == [op |-> "none", m |-> 0, name |-> "", id |-> 0, namespace |-> "",
          func |-> NoFunction, option |-> NoOption, before |-> <<>>,
          raised |-> "", returned |-> "", n |-> 0]

(***************************************************************************)
(* The process.                                                            *)
(***************************************************************************)
Init ==
    /\ objs \in Managers
    /\ subNsFresh \in BOOLEAN
    /\ reg = NoReg
    /\ application = "none"
    /\ pc = "idle"
    /\ argv = <<>>
    /\ defaulted = FALSE
    /\ typed = <<>>
    /\ default_command = ""
    /\ group = NoGroup
    /\ argument_group = NoGroup
    /\ script = NoScript
    /\ func_handle = NoHandle
    /\ printed = "none"
    /\ helpParser = NoHandle
    /\ app_config = EmptyNs
    /\ kwargs = EmptyNs
    /\ positional_args = <<>>
    /\ factoryCalls = 0
    /\ factoryKwargs = EmptyNs
    /\ ctx = "none"
    /\ bodyRuns = 0
    /\ bodyInCtx = FALSE
    /\ bodyOutcome = NoOutcome
    /\ result = None
    /\ exitCode = None
    /\ escaped = None

\* self._commands.update(commands)
update(h, m, commands) ==
    [h EXCEPT ![m].commands =
        [n \in DOMAIN @ \cup DOMAIN commands |->
            IF n \in DOMAIN commands THEN commands[n] ELSE @[n]]]

\* the managers of the heap that no table holds
Unregistered(h) ==
    {o \in DOMAIN h \ {Root} :
        /\ h[o].kind = "manager"
        /\ \A q \in DOMAIN h : o \notin Range(h[q].commands)}

\* the commands argument of run(): None, or a dict with one manager
RunCommands(h) == {EmptyMap} \cup {("extra" :> o) : o \in Unregistered(h)}

\* mutant of run: default_command is appended whenever it is given
run_append ==
    /\ pc = "idle"
    /\ \E commands \in RunCommands(objs) :
          LET h == update(objs, Root, commands)
          IN  /\ objs' = h
              /\ \E a \in ArgVectors(h), d \in DefaultCommands(h) :
                    /\ Len(a) <= MaxDefaultArgs \/ d = ""
                    /\ typed' = a
                    /\ default_command' = d
                    /\ argv' = IF d # "" THEN a \o <<d>> ELSE a
                    /\ defaulted' = (d # "")
    /\ pc' = "handle"
    /\ UNCHANGED <<reg, group, argument_group, script, application, subNsFresh, func_handle, printed, helpParser, app_config, kwargs,
                   positional_args, factoryCalls, factoryKwargs, ctx, bodyRuns,
                   bodyInCtx, bodyOutcome, result, exitCode, escaped>>

\* Manager.run, lines 398-402: the commands given are put into the table,
\* and default_command is appended to sys.argv when only the program name
\* is there
run ==
    /\ pc = "idle"
    /\ \E commands \in RunCommands(objs) :
          LET h == update(objs, Root, commands)
          IN  /\ objs' = h
              /\ \E a \in ArgVectors(h), d \in DefaultCommands(h) :
                    /\ Len(a) <= MaxDefaultArgs \/ d = ""
                    /\ typed' = a
                    /\ default_command' = d
                    /\ argv' = IF d # "" /\ Len(a) = 0 THEN <<d>> ELSE a
                    /\ defaulted' = (d # "" /\ Len(a) = 0)
    /\ pc' = "handle"
    /\ UNCHANGED <<reg, group, argument_group, script, application, subNsFresh, func_handle, printed, helpParser, app_config, kwargs,
                   positional_args, factoryCalls, factoryKwargs, ctx, bodyRuns,
                   bodyInCtx, bodyOutcome, result, exitCode, escaped>>

\* mutant of Manager_handle: the default commands are registered at
\* dispatch
Manager_handle_registers ==
    /\ pc = "handle"
    /\ objs' = add_default_commands(objs, Root)
    /\ \E o \in {handle(objs, argv)} :
           /\ printed' = o.printed
           /\ helpParser' = o.parser
           /\ func_handle' = o.func_handle
           /\ app_config' = o.app_config
           /\ kwargs' = o.kwargs
           /\ positional_args' = o.positional_args
           /\ result' = IF o.kind = "raise" THEN result ELSE o.value
           /\ escaped' = IF o.kind = "raise" THEN o.value ELSE escaped
           /\ pc' = CASE o.kind = "dispatch" -> "create_app"
                      [] o.kind = "raise" -> "escaped"
                      [] OTHER -> "exit"
    /\ UNCHANGED <<reg, application, subNsFresh, argv, defaulted, typed, default_command, group, argument_group, script, factoryCalls, factoryKwargs,
                   ctx, bodyRuns, bodyInCtx, bodyOutcome, exitCode>>

\* Manager.handle, lines 342-380, and run's except SystemExit
Manager_handle ==
    /\ pc = "handle"
    /\ \E o \in {handle(objs, argv)} :
           /\ printed' = o.printed
           /\ helpParser' = o.parser
           /\ func_handle' = o.func_handle
           /\ app_config' = o.app_config
           /\ kwargs' = o.kwargs
           /\ positional_args' = o.positional_args
           /\ result' = IF o.kind = "raise" THEN result ELSE o.value
           /\ escaped' = IF o.kind = "raise" THEN o.value ELSE escaped
           /\ pc' = CASE o.kind = "dispatch" -> "create_app"
                      [] o.kind = "raise" -> "escaped"
                      [] OTHER -> "exit"
    /\ UNCHANGED <<objs, reg, application, subNsFresh, argv, defaulted, typed, default_command, group, argument_group, script, factoryCalls, factoryKwargs,
                   ctx, bodyRuns, bodyInCtx, bodyOutcome, exitCode>>

\* mutant of create_app: self.app is called whatever it is
create_app_calls ==
    /\ pc = "create_app"
    /\ application' = "made"
    /\ factoryCalls' = factoryCalls + 1
    /\ factoryKwargs' = app_config
    /\ pc' = "command_handle"
    /\ UNCHANGED <<objs, reg, subNsFresh, argv, defaulted, typed, default_command, group, argument_group, script, func_handle, printed, helpParser,
                   app_config, kwargs, positional_args, ctx, bodyRuns, bodyInCtx,
                   bodyOutcome, result, exitCode, escaped>>

\* Manager.create_app, called at line 382 on the manager that runs
create_app ==
    /\ pc = "create_app"
    /\ IF objs[Root].app = "instance"
       THEN /\ application' = "given"
            /\ UNCHANGED <<factoryCalls, factoryKwargs>>
       ELSE /\ application' = "made"
            /\ factoryCalls' = factoryCalls + 1
            /\ factoryKwargs' = app_config
    /\ pc' = "command_handle"
    /\ UNCHANGED <<objs, reg, subNsFresh, argv, defaulted, typed, default_command, group, argument_group, script, func_handle, printed, helpParser,
                   app_config, kwargs, positional_args, ctx, bodyRuns, bodyInCtx,
                   bodyOutcome, result, exitCode, escaped>>

\* line 384, handle(app, *positional_args, **kwargs) on the bound
\* Command.handle(self, app, *args, **kwargs): a keyword named like one of
\* its parameters is a TypeError (multiple values for argument)
handle_call_raises(kw) == {"self", "app"} \cap DOMAIN kw # {}

\* the call of Command.handle, and with app.test_request_context():
\* __enter__
Command_handle_enter ==
    /\ pc = "command_handle"
    /\ IF handle_call_raises(kwargs)
       THEN /\ escaped' = TypeError
            /\ pc' = "escaped"
            /\ UNCHANGED ctx
       ELSE /\ ctx' = "entered"
            /\ pc' = "body"
            /\ UNCHANGED escaped
    /\ UNCHANGED <<objs, reg, application, subNsFresh, argv, defaulted, typed, default_command, group, argument_group, script, func_handle, printed, helpParser,
                   app_config, kwargs, positional_args, factoryCalls,
                   factoryKwargs, bodyRuns, bodyInCtx, bodyOutcome, result,
                   exitCode>>

\* mutant of Command_run: the body is called a second time
Command_run_twice ==
    /\ pc = "body"
    /\ \E o \in BodyOutcomes : bodyOutcome' = o
    /\ bodyRuns' = bodyRuns + 1
    /\ bodyInCtx' = (ctx = "entered")
    /\ pc' = IF bodyRuns = 0 THEN "body" ELSE "leave"
    /\ UNCHANGED <<objs, reg, application, subNsFresh, argv, defaulted, typed, default_command, group, argument_group, script, func_handle, printed, helpParser,
                   app_config, kwargs, positional_args, factoryCalls,
                   factoryKwargs, ctx, result, exitCode, escaped>>

\* Command.handle: self.run(*args, **kwargs)
Command_run ==
    /\ pc = "body"
    /\ \E o \in BodyOutcomes : bodyOutcome' = o
    /\ bodyRuns' = bodyRuns + 1
    /\ bodyInCtx' = (ctx = "entered")
    /\ pc' = "leave"
    /\ UNCHANGED <<objs, reg, application, subNsFresh, argv, defaulted, typed, default_command, group, argument_group, script, func_handle, printed, helpParser,
                   app_config, kwargs, positional_args, factoryCalls,
                   factoryKwargs, ctx, result, exitCode, escaped>>

\* what Command.handle hands back from the body
Command_handle_result(outcome) == outcome.value

\* mutant of Command_handle_exit: run turns every exception into exit code 1
Command_handle_exit_swallow ==
    /\ pc = "leave"
    /\ ctx' = "left"
    /\ result' = IF bodyOutcome.kind = "raise" THEN PyInt(1)
                 ELSE Command_handle_result(bodyOutcome)
    /\ pc' = "exit"
    /\ UNCHANGED <<objs, reg, application, subNsFresh, argv, defaulted, typed, default_command, group, argument_group, script, func_handle, printed, helpParser,
                   app_config, kwargs, positional_args, factoryCalls,
                   factoryKwargs, bodyRuns, bodyInCtx, bodyOutcome, exitCode,
                   escaped>>

\* mutant of Command_handle_exit: the context is left on return only
Command_handle_exit_leak ==
    /\ pc = "leave"
    /\ ctx' = IF bodyOutcome.kind = "return" THEN "left" ELSE ctx
    /\ result' = IF bodyOutcome.kind = "raise" THEN result
                 ELSE Command_handle_result(bodyOutcome)
    /\ escaped' = IF bodyOutcome.kind = "raise" THEN bodyOutcome.value ELSE escaped
    /\ pc' = IF bodyOutcome.kind = "raise" THEN "escaped" ELSE "exit"
    /\ UNCHANGED <<objs, reg, application, subNsFresh, argv, defaulted, typed, default_command, group, argument_group, script, func_handle, printed, helpParser,
                   app_config, kwargs, positional_args, factoryCalls,
                   factoryKwargs, bodyRuns, bodyInCtx, bodyOutcome, exitCode>>

\* Command.handle: the with block is left, by return or by exception;
\* run catches SystemExit only
Command_handle_exit ==
    /\ pc = "leave"
    /\ ctx' = "left"
    /\ result' = IF bodyOutcome.kind = "raise" THEN result
                 ELSE Command_handle_result(bodyOutcome)
    /\ escaped' = IF bodyOutcome.kind = "raise" THEN bodyOutcome.value ELSE escaped
    /\ pc' = IF bodyOutcome.kind = "raise" THEN "escaped" ELSE "exit"
    /\ UNCHANGED <<objs, reg, application, subNsFresh, argv, defaulted, typed, default_command, group, argument_group, script, func_handle, printed, helpParser,
                   app_config, kwargs, positional_args, factoryCalls,
                   factoryKwargs, bodyRuns, bodyInCtx, bodyOutcome, exitCode>>

\* Manager.run, line 409: sys.exit(result or 0)
sys_exit ==
    /\ pc = "exit"
    /\ exitCode' = ExitArgument(result)
    /\ pc' = "done"
    /\ UNCHANGED <<objs, reg, application, subNsFresh, argv, defaulted, typed, default_command, group, argument_group, script, func_handle, printed, helpParser,
                   app_config, kwargs, positional_args, factoryCalls,
                   factoryKwargs, ctx, bodyRuns, bodyInCtx, bodyOutcome, result,
                   escaped>>

Next ==
    \/ run
    \/ Manager_handle
    \/ create_app
    \/ Command_handle_enter
    \/ Command_run
    \/ Command_handle_exit
    \/ sys_exit

Spec == Init /\ [][Next]_vars

(***************************************************************************)
(* Registration: what a manage.py does to its managers before run.  The    *)
(* heap starts with a root manager made with a factory (so with the        *)
(* default commands), one global option, and the objects the calls take.   *)
(***************************************************************************)
NamedCommand == Subclass(Command(<<>>, FALSE, TRUE), "NamedCommand", "Command")
ExplicitNamedCommand ==
    [Subclass(Command(<<>>, FALSE, TRUE), "ExplicitNamedCommand", "Command")
        EXCEPT !.name = "named"]
NamespacedCommand ==
    [Subclass(Command(<<>>, FALSE, TRUE), "NamespacedCommand", "Command")
        EXCEPT !.namespace = "ns"]
\* the class SimpleCommand, not an instance of it
SimpleCommandClass == [SimpleCommand EXCEPT !.is_class = TRUE]
\* Manager(create_app, with_default_commands=False) with an option of its
\* own
OptSub == Option(<<"-k">>, "key", "store", "None")
SubManager == [Manager("factory") EXCEPT !.options = <<OptSub>>]

RegFunctions == {FunctionShell, FunctionVerify, FunctionTwo, MethodHello}

RegObjects == <<SimpleCommandClass, NamedCommand, ExplicitNamedCommand,
                NamespacedCommand, SubManager>>

RECURSIVE AllocAll(_, _, _)
AllocAll(h, objects, i) ==
    IF i > Len(objects) THEN h ELSE AllocAll(Alloc(h, objects[i]), objects, i + 1)

RegRoot == add_default_commands(FactoryManager, Root)
RegHeap == AllocAll(RegRoot, RegObjects, 1)
\* the objects a registration call can be given
RegPool == (DOMAIN RegHeap) \ (DOMAIN RegRoot)
RegNames == {"", "shell", "grp"}
RegNamespaces == {"", "grp"}

\* the managers of the tree: the root and every manager registered in it
RegManagers(h) ==
    {Root} \cup {o \in DOMAIN h : h[o].kind = "manager" /\ h[o].parent # NoParent}

RegInit ==
    /\ objs = RegHeap
    /\ subNsFresh = TRUE
    /\ reg = NoReg
    /\ application = "none"
    /\ pc = "idle"
    /\ argv = <<>>
    /\ defaulted = FALSE
    /\ typed = <<>>
    /\ default_command = ""
    /\ group = NoGroup
    /\ argument_group = NoGroup
    /\ script = NoScript
    /\ func_handle = NoHandle
    /\ printed = "none"
    /\ helpParser = NoHandle
    /\ app_config = EmptyNs
    /\ kwargs = EmptyNs
    /\ positional_args = <<>>
    /\ factoryCalls = 0
    /\ factoryKwargs = EmptyNs
    /\ ctx = "none"
    /\ bodyRuns = 0
    /\ bodyInCtx = FALSE
    /\ bodyOutcome = NoOutcome
    /\ result = None
    /\ exitCode = None
    /\ escaped = None

dispatchVars == <<application, subNsFresh, pc, argv, defaulted, typed, default_command, group, argument_group, script, func_handle, printed, helpParser,
                  app_config, kwargs, positional_args, factoryCalls, factoryKwargs,
                  ctx, bodyRuns, bodyInCtx, bodyOutcome, result, exitCode, escaped>>

\* manager.add_command(command), manager.add_command(name, command),
\* with or without namespace=
RegAddCommand ==
    /\ reg.n < MaxRegs
    /\ \E m \in RegManagers(objs), id \in RegPool, name \in RegNames,
          namespace \in RegNamespaces :
          /\ id # m
          /\ objs[id].kind = "manager" => objs[id].parent = NoParent
          /\ objs' = add_command(objs, m, name, id, namespace)
          /\ reg' = [NoReg EXCEPT !.op = "add_command", !.m = m, !.name = name,
                                  !.id = id, !.namespace = namespace,
                                  !.before = objs,
                                  !.raised = IF add_command_raises(objs, m, name, id, namespace)
                                             THEN "AttributeError" ELSE "",
                                  !.n = reg.n + 1]
    /\ UNCHANGED dispatchVars

\* @manager.command
RegCommand ==
    /\ reg.n < MaxRegs
    /\ \E m \in RegManagers(objs), func \in RegFunctions :
          /\ objs' = command(objs, m, func)
          /\ reg' = [NoReg EXCEPT !.op = "command", !.m = m, !.name = func.name,
                                  !.func = func, !.before = objs,
                                  !.returned = func.id, !.n = reg.n + 1]
    /\ UNCHANGED dispatchVars

\* @manager.option(...)
RegOption ==
    /\ reg.n < MaxRegs
    /\ \E m \in RegManagers(objs), func \in RegFunctions :
          /\ objs' = option(objs, m, OptUrl, func)
          /\ reg' = [NoReg EXCEPT !.op = "option", !.m = m, !.name = func.name,
                                  !.func = func, !.option = OptUrl, !.before = objs,
                                  !.raised = IF option_raises(objs, m, func)
                                             THEN "AttributeError" ELSE "",
                                  !.returned = func.id, !.n = reg.n + 1]
    /\ UNCHANGED dispatchVars

\* manager.add_option(...)
RegAddOption ==
    /\ reg.n < MaxRegs
    /\ \E m \in RegManagers(objs) :
          /\ objs' = add_option(objs, m, OptVerbose)
          /\ reg' = [NoReg EXCEPT !.op = "add_option", !.m = m, !.option = OptVerbose,
                                  !.before = objs, !.n = reg.n + 1]
    /\ UNCHANGED dispatchVars

\* the Command instances of the heap
CommandInstances(h) ==
    {c \in DOMAIN h : h[c].kind = "command" /\ ~h[c].is_class}

\* command.add_option(...)
RegCommandAddOption ==
    /\ reg.n < MaxRegs
    /\ \E c \in CommandInstances(objs) :
          /\ objs' = Command_add_option(objs, c, OptUrl)
          /\ reg' = [NoReg EXCEPT !.op = "Command.add_option", !.id = c,
                                  !.option = OptUrl, !.before = objs,
                                  !.raised = IF Command_add_option_raises(objs, c)
                                             THEN "AttributeError" ELSE "",
                                  !.n = reg.n + 1]
    /\ UNCHANGED dispatchVars

RegNext ==
    \/ RegAddCommand
    \/ RegCommand
    \/ RegOption
    \/ RegAddOption
    \/ RegCommandAddOption

RegSpec == RegInit /\ [][RegNext]_vars

(***************************************************************************)
(* Option groups: Group(...) is called, and Command.create_parser makes    *)
(* the argparse group of the object                                        *)
(***************************************************************************)
\* the options a group is made of
GroupOptions == {<<>>, <<OptName>>, <<OptName, OptUrl>>}

\* everything but the group and its argparse group
managerVars == <<objs, reg, application, subNsFresh, pc, argv, defaulted, typed,
                 default_command, func_handle, printed, helpParser, app_config,
                 kwargs, positional_args, factoryCalls, factoryKwargs, ctx,
                 bodyRuns, bodyInCtx, bodyOutcome, result, exitCode, escaped>>

\* Group(*options, title=..., description=..., exclusive=..., required=...)
\* with None, an empty and a non-empty value of each setting
Group_init ==
    /\ group = NoGroup
    /\ \E options \in GroupOptions,
          title \in {None, PyStr(0), PyStr(1)},
          description \in {None, PyStr(0), PyStr(1)},
          exclusive \in {None, PyBool(FALSE), PyBool(TRUE)},
          required \in {None, PyBool(FALSE), PyBool(TRUE)} :
          group' = [call |-> [title |-> title, description |-> description,
                              exclusive |-> exclusive, required |-> required],
                    made |-> Group(options, title, description, exclusive,
                                   required)]
    /\ UNCHANGED <<argument_group, script>>
    /\ UNCHANGED managerVars

\* Command.create_parser, lines 119-131, for a command whose option list
\* holds the group
Command_create_parser ==
    /\ group # NoGroup
    /\ group.made.kind = "group"
    /\ argument_group = NoGroup
    /\ argument_group' = create_group(group.made)
    /\ UNCHANGED <<group, script>>
    /\ UNCHANGED managerVars

GroupNext ==
    \/ Group_init
    \/ Command_create_parser

GroupSpec == RegInit /\ [][GroupNext]_vars

(***************************************************************************)
(* The older dispatcher, flaskext/script.py: a Manager with a flat table   *)
(* of commands and no sub-parsers.  script is a record:                    *)
(*   commands         the names in Manager._commands                       *)
(*   argv             sys.argv[1:]                                         *)
(*   default_command  the argument of that name of run, "" for None        *)
(*   command          the name run hands to handle, "" for None            *)
(*   pc               where run is                                         *)
(*   e                the InvalidCommand that was raised, its message      *)
(*   out              what was printed, in order                           *)
(*   bodyRuns         how often a command body was called                  *)
(*   exitCode         the argument of sys.exit, None before                *)
(*   escaped          the exception that left run, None when there is none *)
(* The commands are Command objects without options of their own, and the  *)
(* manager has no options.                                                 *)
(***************************************************************************)
ValueError == [t |-> "exc", v |-> 4]

\* the registries: none, one command, the default commands, both
ScriptRegistries ==
    {{}, {"hello"}, {"shell", "runserver"}, {"shell", "runserver", "hello"}}
\* sys.argv[1:]: lines of a registered name, the name run(commands=...)
\* adds, a name that is not registered and a help flag
ScriptArgVectors ==
    UNION {[1..n -> {"hello", "extra", "nosuch", "-h"}] : n \in 0..MaxArgs}

\* help_args, line 659
help_args == {"-h", "--help"}

\* all but script
flaskScriptVars == <<managerVars, group, argument_group>>

\* Manager(app, with_default_commands=...) and the add_command calls of
\* the script, lines 429-439 and 610-618
script_Manager ==
    /\ script = NoScript
    /\ \E registry \in ScriptRegistries :
          script' = [commands |-> registry, argv |-> <<>>,
                     default_command |-> "", command |-> "", pc |-> "idle",
                     e |-> "", out |-> <<>>, bodyRuns |-> 0,
                     exitCode |-> None, escaped |-> None]
    /\ UNCHANGED flaskScriptVars

\* Manager.run, lines 697-708: the commands given are put into the table;
\* the command is sys.argv[1], or default_command when there is none
script_run ==
    /\ script # NoScript
    /\ script.pc = "idle"
    /\ \E commands \in {{}, {"extra"}}, a \in ScriptArgVectors,
          d \in {"", "hello", "nosuch"} :
          LET cmd == IF Len(a) >= 1 THEN a[1] ELSE d
          IN  script' = [script EXCEPT
                  !.commands = @ \cup commands,
                  !.argv = a,
                  !.default_command = d,
                  !.command = cmd,
                  !.e = IF cmd = "" THEN "Please provide a command" ELSE "",
                  !.pc = IF cmd = "" THEN "except" ELSE "handle"]
    /\ UNCHANGED flaskScriptVars

\* Manager.handle, lines 650-680: the name is looked up; the parsers of the
\* manager and of the command get the line, the help flags last.  A help
\* flag makes the command's parser print its help and exit with 0, any
\* other token is one it does not know and it exits with 2
script_handle ==
    /\ script # NoScript
    /\ script.pc = "handle"
    /\ LET args == IF Len(script.argv) >= 1 THEN Tail(script.argv) ELSE <<>>
           given == {args[k] : k \in DOMAIN args}
       IN  script' =
             IF script.command \notin script.commands
             THEN [script EXCEPT !.e = "Command not found", !.pc = "except"]
             ELSE IF given \cap help_args # {}
             THEN [script EXCEPT !.out = Append(@, "help"),
                                 !.exitCode = PyInt(0), !.pc = "done"]
             ELSE IF given # {}
             THEN [script EXCEPT !.out = Append(@, "error"),
                                 !.exitCode = PyInt(2), !.pc = "done"]
             ELSE [script EXCEPT !.pc = "body"]
    /\ UNCHANGED flaskScriptVars

\* lines 680-682: create_app and command.handle, which calls the body
script_Command_handle ==
    /\ script # NoScript
    /\ script.pc = "body"
    /\ \E outcome \in {"return", "raise"} :
          script' = [script EXCEPT
              !.bodyRuns = @ + 1,
              !.escaped = IF outcome = "raise" THEN IndexError ELSE @,
              !.pc = IF outcome = "raise" THEN "escaped" ELSE "returned"]
    /\ UNCHANGED flaskScriptVars

\* line 712: sys.exit(0)
script_exit_0 ==
    /\ script # NoScript
    /\ script.pc = "returned"
    /\ script' = [script EXCEPT !.exitCode = PyInt(0), !.pc = "done"]
    /\ UNCHANGED flaskScriptVars

\* Manager.get_usage, line 626: max() of the lengths of the names raises
\* ValueError when there is no name
get_usage_raises(commands) == commands = {}

\* lines 714-716, except InvalidCommand: print e, print_usage()
script_except ==
    /\ script # NoScript
    /\ script.pc = "except"
    /\ script' =
         IF get_usage_raises(script.commands)
         THEN [script EXCEPT !.out = Append(@, script.e),
                             !.escaped = ValueError, !.pc = "escaped"]
         ELSE [script EXCEPT !.out = Append(Append(@, script.e), "usage"),
                             !.pc = "usage"]
    /\ UNCHANGED flaskScriptVars

\* line 718: sys.exit(1)
script_exit_1 ==
    /\ script # NoScript
    /\ script.pc = "usage"
    /\ script' = [script EXCEPT !.exitCode = PyInt(1), !.pc = "done"]
    /\ UNCHANGED flaskScriptVars

ScriptNext ==
    \/ script_Manager
    \/ script_run
    \/ script_handle
    \/ script_Command_handle
    \/ script_exit_0
    \/ script_except
    \/ script_exit_1

ScriptSpec == RegInit /\ [][ScriptNext]_vars

(***************************************************************************)
(* What a command line says, read off the tokens and the registration      *)
(* alone: the reference the claims are stated against.                     *)
(***************************************************************************)
Built == ~create_parser_raises(objs, Root)
Handled == pc \notin {"idle", "handle"}
Dispatching == pc \in {"create_app", "command_handle", "body", "leave"}

\* the option of the sequence options that declares flag tok, if any
Declares(options, tok) ==
    {k \in DOMAIN options : tok \in Range(options[k].args)
                                 \/ Range(options[k].args) \cap StartsWith(tok) # {}}
TakesValue(opt) == opt.action \notin {"store_true", "store_false"}

\* index of the first command token of the line: the first plain word that
\* is not the value of a global option; 0 when a help flag or a global
\* option without its value comes first, or the line has no such word
RECURSIVE CommandTokenAt(_, _, _)
CommandTokenAt(h, args, i) ==
    IF i > Len(args) THEN 0
    ELSE LET tok == args[i]
             opts == get_options(h, Root)
             decl == Declares(opts, tok)
         IN  IF tok \in HelpAction.flags THEN 0
             ELSE IF decl # {}
             THEN IF ~TakesValue(opts[CHOOSE k \in decl : TRUE])
                  THEN CommandTokenAt(h, args, i + 1)
                  ELSE IF i + 1 <= Len(args) /\ ~IsFlag(args[i + 1])
                  THEN CommandTokenAt(h, args, i + 2)
                  ELSE 0
             ELSE IF IsFlag(tok) THEN CommandTokenAt(h, args, i + 1)
             ELSE i

\* the line resolves no command: from token i on it holds only options of
\* manager m (with or without their values) and names of sub-managers
RECURSIVE NoCommandLine(_, _, _, _)
NoCommandLine(h, m, args, i) ==
    IF i > Len(args) THEN TRUE
    ELSE LET tok == args[i]
             opts == get_options(h, m)
             decl == Declares(opts, tok)
         IN  IF decl # {}
             THEN IF ~TakesValue(opts[CHOOSE k \in decl : TRUE])
                  THEN NoCommandLine(h, m, args, i + 1)
                  ELSE IF i + 1 > Len(args) THEN TRUE
                  ELSE ~IsFlag(args[i + 1]) /\ NoCommandLine(h, m, args, i + 2)
             ELSE /\ tok \in DOMAIN h[m].commands
                  /\ h[h[m].commands[tok]].kind = "manager"
                  /\ NoCommandLine(h, h[m].commands[tok], args, i + 1)

\* C1: a first command token that is not a key of the manager's command
\* table ends the process with exit code 2 after an error message; the
\* application factory is not called and no command body runs.  (For a
\* manager whose parser tree argparse can build, and a line on which no
\* help flag comes before the command token.)
C1_UnknownCommandExits2 ==
    LET i == CommandTokenAt(objs, argv, 1)
    IN  (Handled /\ Built /\ i # 0 /\ argv[i] \notin DOMAIN objs[Root].commands)
        => /\ pc \in {"exit", "done"}
           /\ result = PyInt(2)
           /\ printed = "error"
           /\ factoryCalls = 0
           /\ bodyRuns = 0
           /\ pc = "done" => exitCode = PyInt(2)

C1_Witness ==
    LET i == CommandTokenAt(objs, argv, 1)
    IN  /\ pc = "done"
        /\ Built
        /\ i > 1
        /\ argv[i] \notin DOMAIN objs[Root].commands
        /\ DOMAIN objs[Root].commands # {}
        /\ exitCode = PyInt(2)

C3_ExitCodeFromReturnValue ==
    (bodyRuns = 1 /\ bodyOutcome.kind = "return")
    => /\ pc \in {"exit", "done"} => result = bodyOutcome.value
       /\ pc = "done" =>
            /\ (bodyOutcome.value.t = "int" /\ bodyOutcome.value.v # 0)
                   => exitCode = bodyOutcome.value
            /\ bodyOutcome.value \in {None, PyInt(0), PyBool(FALSE), PyStr(0)}
                   => exitCode = PyInt(0)

C3_Witness ==
    /\ pc = "done"
    /\ bodyOutcome = [kind |-> "return", value |-> PyInt(3)]
    /\ exitCode = PyInt(3)

\* C4: an exception of the body other than SystemExit leaves run as it
\* is: run makes no exit code of it and does not call sys.exit.
C4_BodyExceptionEscapes ==
    (bodyOutcome.kind = "raise" /\ pc # "leave")
    => /\ pc = "escaped"
       /\ escaped = bodyOutcome.value
       /\ exitCode = None

C4_Witness ==
    /\ pc = "escaped"
    /\ bodyRuns = 1
    /\ escaped = IndexError

\* C5: Command.handle enters the request context before the body starts
\* and leaves it after the body ends, on return and on exception: the body
\* never runs outside an entered context, and the context is not left open
\* once handle has finished.
C5_ContextAroundBody ==
    /\ pc = "body" => ctx = "entered"
    /\ bodyRuns > 0 => bodyInCtx
    /\ pc = "leave" => ctx = "entered"
    /\ pc \in {"exit", "escaped", "done"} => ctx # "entered"
    /\ (bodyRuns > 0 /\ pc # "leave") => ctx = "left"
    /\ bodyRuns = 0 => ctx \in {"none", "entered"}

C5_Witness ==
    /\ pc = "escaped"
    /\ bodyOutcome.kind = "raise"
    /\ bodyInCtx
    /\ ctx = "left"

(***************************************************************************)
(* Reference for the lines that name a command directly under the root:    *)
(* which tokens a declared flag consumes, and which are left.              *)
(***************************************************************************)
\* the one option that token tok selects among options, if any
Consumer(options, tok) ==
    LET d == Declares(options, tok) IN IF Cardinality(d) = 1 THEN d ELSE {}

\* the options in force after the token of command c: the manager's, handed
\* down as parents, and the command's own
OptionsAfter(h, c) ==
    (IF h[c].accepts_parents THEN get_options(h, Root) ELSE <<>>) \o CommandOptions(h, c)

\* the tokens of args from i to n that no option of options consumes
RECURSIVE Leftover(_, _, _, _)
Leftover(options, args, i, n) ==
    IF i > n THEN <<>>
    ELSE LET d == Consumer(options, args[i])
         IN  IF d = {} THEN <<args[i]>> \o Leftover(options, args, i + 1, n)
             ELSE IF TakesValue(options[CHOOSE k \in d : TRUE])
             THEN Leftover(options, args, i + 2, n)
             ELSE Leftover(options, args, i + 1, n)

\* from token i on no help flag is given and every flag that takes a value
\* has one
RECURSIVE WellUsed(_, _, _)
WellUsed(options, args, i) ==
    IF i > Len(args) THEN TRUE
    ELSE LET d == Consumer(options, args[i])
         IN  IF args[i] \in HelpAction.flags THEN FALSE
             ELSE IF d = {} THEN WellUsed(options, args, i + 1)
             ELSE IF TakesValue(options[CHOOSE k \in d : TRUE])
             THEN /\ i + 1 <= Len(args)
                  /\ ~IsFlag(args[i + 1])
                  /\ WellUsed(options, args, i + 2)
             ELSE WellUsed(options, args, i + 1)

\* the line names a command (not a sub-manager) of the root
NamesCommand ==
    LET i == CommandTokenAt(objs, argv, 1)
    IN  /\ i # 0
        /\ argv[i] \in DOMAIN objs[Root].commands
        /\ objs[objs[Root].commands[argv[i]]].kind = "command"

\* what C6 promises for the state: the command is dispatched, the tokens
\* no declared flag consumes are its one positional argument, in line
\* order, and its store_true flags are bound
CatchAllDelivered ==
    LET i == CommandTokenAt(objs, argv, 1)
        c == objs[Root].commands[argv[i]]
        after == OptionsAfter(objs, c)
        rest == Leftover(get_options(objs, Root), argv, 1, i - 1)
                \o Leftover(after, argv, i + 1, Len(argv))
    IN  /\ func_handle = c
        /\ printed = "none"
        /\ positional_args = <<rest>>
        /\ \A k \in DOMAIN objs[c].options :
              objs[c].options[k].action = "store_true"
              => /\ objs[c].options[k].dest \in DOMAIN kwargs
                 /\ kwargs[objs[c].options[k].dest]
                      = IF \E j \in (i + 1)..Len(argv) :
                               argv[j] \in Range(objs[c].options[k].args)
                        THEN "True" ELSE "False"

CatchAllLine ==
    LET i == CommandTokenAt(objs, argv, 1)
        c == objs[Root].commands[argv[i]]
    IN  /\ Handled /\ Built /\ NamesCommand
        /\ objs[c].capture_all_args
        /\ WellUsed(OptionsAfter(objs, c), argv, i + 1)

\* C6: for a command with capture_all_args dispatch never fails because of
\* tokens the command did not declare: every token that neither the
\* manager's nor the command's declared flags consume, flag-like or not, is
\* delivered to the body as one sequence, the single first positional
\* argument, in line order, and the declared flags are parsed and bound.
C6_CatchAllNeverFails == CatchAllLine => CatchAllDelivered

\* what does hold: the same, for lines on which no token is a prefix that
\* two declared long options share
CatchAllUnlessAmbiguous ==
    (CatchAllLine /\ \A j \in DOMAIN argv : Cardinality(StartsWith(argv[j]) \cap DeclaredFlags(objs)) < 2)
    => CatchAllDelivered

CatchAllReached ==
    /\ CatchAllLine
    /\ pc = "done"
    /\ argv = <<"--bar", "catch", "--foo">>
    /\ positional_args = <<<<"--bar">>>>
    /\ bodyRuns = 1

\* C7: for a command without capture_all_args, whenever parsing leaves a
\* token unconsumed the process exits with code 2, the application factory
\* is not called and the body does not run; handle never goes on to the
\* body with leftover tokens.
C7_LeftoverExits2 ==
    LET r == parse_known_args(objs, Root, Root, argv, EmptyNs)
    IN  /\ (func_handle # NoHandle /\ ~objs[func_handle].capture_all_args)
           => r.extras = <<>>
        /\ (Handled /\ Built /\ r.status = "ok" /\ r.handle # NoHandle
               /\ ~objs[r.handle].capture_all_args /\ Len(r.extras) > 0)
           => /\ pc \in {"exit", "done"}
              /\ result = PyInt(2)
              /\ printed = "error"
              /\ factoryCalls = 0
              /\ bodyRuns = 0
              /\ pc = "done" => exitCode = PyInt(2)

C7_Witness ==
    LET r == parse_known_args(objs, Root, Root, argv, EmptyNs)
    IN  /\ pc = "done"
        /\ Built
        /\ r.status = "ok"
        /\ r.handle # NoHandle
        /\ ~objs[r.handle].capture_all_args
        /\ "--bar" \in Range(r.extras)
        /\ "P" \in Range(r.extras)
        /\ exitCode = PyInt(2)
        /\ factoryCalls = 0
        /\ bodyRuns = 0

\* the positions of the line where option o of the manager is given by one
\* of its option strings
GivenAt(o) == {j \in DOMAIN argv : argv[j] \in Range(o.args)}

\* the line is <<command, flag, value>> or <<flag, value, command>> for
\* option o of the manager and a command of the root at position i
OptionLine(o, i) ==
    /\ Handled /\ Built
    /\ Len(argv) = 3
    /\ argv[i] \in DOMAIN objs[Root].commands
    /\ objs[objs[Root].commands[argv[i]]].kind = "command"
    /\ LET j == IF i = 1 THEN 2 ELSE 1
       IN  argv[j] \in Range(o.args) /\ ~IsFlag(argv[j + 1])

\* C8: an option declared with Manager.add_option is accepted before and
\* after the command token, and in both positions the value given on the
\* line is the value the application factory receives, never the value of
\* a command's own flag of the same dest and never the option's default.
C8_GlobalOptionValueToFactory ==
    \A k \in DOMAIN objs[Root].options :
        LET o == objs[Root].options[k]
        IN  /\ (factoryCalls = 1 /\ o.action \in safe_actions /\ Cardinality(GivenAt(o)) = 1)
               => /\ o.dest \in DOMAIN factoryKwargs
                  /\ factoryKwargs[o.dest] = argv[(CHOOSE j \in GivenAt(o) : TRUE) + 1]
            /\ \A i \in {1, 3} :
                  (OptionLine(o, i) /\ o.action \in safe_actions
                     /\ CommandOptions(objs, objs[Root].commands[argv[i]]) = <<>>
                     /\ objs[objs[Root].commands[argv[i]]].accepts_parents)
                  => func_handle = objs[Root].commands[argv[i]]

\* C9: a global option before the command token dispatches the command,
\* with exit code 0 when the body returns None; the same option after the
\* command token is rejected: exit code 2 and the body does not run.
C9_GlobalOptionAfterCommandRejected ==
    \A k \in DOMAIN objs[Root].options :
        LET o == objs[Root].options[k]
        IN  /\ (OptionLine(o, 3) /\ CommandOptions(objs, objs[Root].commands[argv[3]]) = <<>>)
               => /\ func_handle = objs[Root].commands[argv[3]]
                  /\ (pc = "done" /\ bodyOutcome.value = None) => exitCode = PyInt(0)
            /\ OptionLine(o, 1)
               => /\ pc \in {"exit", "done"}
                  /\ result = PyInt(2)
                  /\ bodyRuns = 0
                  /\ pc = "done" => exitCode = PyInt(2)

\* the half of C9 that holds: before the command token the option is
\* accepted, and after it a command that was not handed the manager's
\* options rejects it
GlobalOptionBeforeCommand ==
    \A k \in DOMAIN objs[Root].options :
        LET o == objs[Root].options[k]
        IN  /\ (OptionLine(o, 3) /\ CommandOptions(objs, objs[Root].commands[argv[3]]) = <<>>)
               => /\ func_handle = objs[Root].commands[argv[3]]
                  /\ (pc = "done" /\ bodyOutcome.value = None) => exitCode = PyInt(0)
            /\ (OptionLine(o, 1) /\ ~objs[objs[Root].commands[argv[1]]].accepts_parents)
               => /\ pc \in {"exit", "done"}
                  /\ result = PyInt(2)
                  /\ bodyRuns = 0

\* the half of C8 that holds: the option is accepted in both positions,
\* and a value given after the command token reaches the factory unless
\* the command has an option of the same dest
GlobalOptionAccepted ==
    \A k \in DOMAIN objs[Root].options :
        LET o == objs[Root].options[k]
        IN  \A i \in {1, 3} :
               (OptionLine(o, i) /\ o.action \in safe_actions
                  /\ CommandOptions(objs, objs[Root].commands[argv[i]]) = <<>>
                  /\ objs[objs[Root].commands[argv[i]]].accepts_parents)
               => /\ func_handle = objs[Root].commands[argv[i]]
                  /\ (i = 1 /\ factoryCalls = 1) => factoryKwargs[o.dest] = argv[3]

\* C10: for every dispatch and every option registered with
\* Manager.add_option, whatever its action, the keyword arguments handed to
\* the command body hold no key equal to the option's dest.
C10_ManagerOptionsNotInKwargs ==
    func_handle # NoHandle
    => \A k \in DOMAIN objs[Root].options : objs[Root].options[k].dest \notin DOMAIN kwargs

\* the dests of the manager's options with a safe action
SafeDests ==
    {objs[Root].options[k].dest :
        k \in {i \in DOMAIN objs[Root].options : objs[Root].options[i].action \in safe_actions}}

\* the positions of the line where option o is given, by an option string
\* or an abbreviation of one
GivenAs(o) ==
    {j \in DOMAIN argv : argv[j] \in Range(o.args) \/ StartsWith(argv[j]) \cap Range(o.args) # {}}

\* the value the line gives option o: the token after its last occurrence
LineValue(o) ==
    LET j == CHOOSE j \in GivenAs(o) : \A i \in GivenAs(o) : i <= j
    IN  argv[j + 1]

\* the namespace is split in two: the keys of the safe dests, and the rest
NamespaceSplit ==
    func_handle # NoHandle
    => LET r == parse_known_args(objs, Root, Root, argv, EmptyNs)
       IN  /\ DOMAIN app_config \cap DOMAIN kwargs = {}
           /\ DOMAIN app_config \cup DOMAIN kwargs = DOMAIN r.ns
           /\ DOMAIN app_config = SafeDests
           /\ \A d \in DOMAIN r.ns :
                 IF d \in SafeDests THEN app_config[d] = r.ns[d] ELSE kwargs[d] = r.ns[d]
           /\ SUPPRESS \notin DOMAIN app_config
           /\ factoryCalls = 1 => factoryKwargs = app_config

\* C11: handle splits the parsed namespace (without func_handle) into two
\* disjoint key sets that cover it: the factory receives exactly the dests
\* of the top-level actions of a safe type, each with its command-line value
\* or, when absent from the line, the option's declared default; the
\* command body receives exactly the other keys; func_handle, help and
\* sub-parser actions do not reach the factory.
C11_FactoryReceivesSafeOptions ==
    /\ NamespaceSplit
    /\ func_handle # NoHandle
       => \A k \in DOMAIN objs[Root].options :
             LET o == objs[Root].options[k]
             IN  o.action \in safe_actions
                 => app_config[o.dest] = IF GivenAs(o) = {} THEN o.default ELSE LineValue(o)

\* what holds of the values: an option absent from the line has its
\* declared default unless the command has an option of the same dest, and
\* an option given after the command token has the value of the line
SafeOptionValues ==
    func_handle # NoHandle
    => \A k \in DOMAIN objs[Root].options :
          LET o == objs[Root].options[k]
              own == CommandOptions(objs, func_handle)
          IN  (o.action \in safe_actions /\ \A i \in DOMAIN own : own[i].dest # o.dest)
              => /\ GivenAs(o) = {} => app_config[o.dest] = o.default
                 /\ (GivenAs(o) # {} /\ \A j \in GivenAs(o) : j > CommandTokenAt(objs, argv, 1))
                    => app_config[o.dest] = LineValue(o)

SafeOptionDefaultReached ==
    /\ pc = "done"
    /\ factoryCalls = 1
    /\ argv = <<"simple">>
    /\ factoryKwargs = [config_name |-> "Development"]

\* C12: when the root manager was made with an application instance,
\* create_app returns that instance on every dispatch and the global
\* option values are ignored: the factory is not called and the options do
\* not change which application the command receives.
C12_InstanceIgnoresOptions ==
    objs[Root].app = "instance"
    => /\ factoryCalls = 0
       /\ factoryKwargs = EmptyNs
       /\ application \in {"none", "given"}
       /\ pc \in {"command_handle", "body", "leave"} => application = "given"
       /\ bodyRuns > 0 => application = "given"

C12_Witness ==
    /\ objs[Root].app = "instance"
    /\ pc = "done"
    /\ bodyRuns = 1
    /\ application = "given"
    /\ "config_name" \in DOMAIN app_config
    /\ app_config["config_name"] = "P"
    /\ factoryCalls = 0

\* how many managers are above manager m
RECURSIVE Depth(_, _)
Depth(h, m) == IF h[m].parent = NoParent THEN 0 ELSE 1 + Depth(h, h[m].parent)

\* C13: for every manager of a manager tree of any depth, get_options()
\* gives the root manager's option list, also for options added to the
\* root after the sub-manager was registered, and create_app() builds the
\* application through the root; a sub-manager's own option list and own
\* app are not used.
C13_SubManagersDeferToRoot ==
    \A m \in RegManagers(objs) :
        /\ get_options(objs, m) = objs[Root].options
        /\ AppOwner(objs, m) = Root

\* what holds: create_app goes up to the root from any depth, and
\* get_options gives the root's list for the root and the managers
\* registered in the root itself
SubManagersOneLevel ==
    \A m \in RegManagers(objs) :
        /\ AppOwner(objs, m) = Root
        /\ Depth(objs, m) <= 1 => get_options(objs, m) = objs[Root].options
        /\ Depth(objs, m) > 1 => get_options(objs, m) = objs[objs[m].parent].options

SubManagerReached ==
    \E m \in RegManagers(objs) :
        /\ Depth(objs, m) = 1
        /\ objs[m].options # <<>>
        /\ reg.op = "add_option" /\ reg.m = Root
        /\ get_options(objs, m) = objs[Root].options
        /\ Len(objs[Root].options) = 2

(***************************************************************************)
(* Namespaces.  The last registration call is an add_command whose         *)
(* namespace, the keyword if given and else the attribute of the command,  *)
(* is not empty.                                                           *)
(***************************************************************************)
RegNamespace ==
    IF reg.namespace # "" THEN reg.namespace ELSE reg.before[reg.id].namespace

NamespacedCall == reg.op = "add_command" /\ RegNamespace # ""

\* the namespace's sub-Manager is the entry of that name in reg.m: the one
\* that was there, or a new one whose parent is reg.m; it holds what it
\* held plus the command under the command's name; the table of reg.m has
\* changed at the namespace name only
Grouped ==
    LET b   == reg.before
        m   == reg.m
        ns  == RegNamespace
        nm  == CommandName(b[reg.id], reg.name)
        old == IF ns \in DOMAIN b[m].commands THEN b[b[m].commands[ns]].commands
               ELSE EmptyMap
    IN  /\ ns \in DOMAIN objs[m].commands
        /\ LET sub == objs[m].commands[ns]
           IN  /\ objs[sub].kind = "manager"
               /\ IF ns \in DOMAIN b[m].commands
                  THEN sub = b[m].commands[ns]
                  ELSE sub \notin DOMAIN b /\ objs[sub].parent = m
               /\ \E c \in DOMAIN objs :
                     /\ objs[c].cls = b[reg.id].cls /\ ~objs[c].is_class
                     /\ b[reg.id].is_class \/ c = reg.id
                     /\ objs[sub].commands = SetItem(old, nm, c)
        /\ DOMAIN objs[m].commands = DOMAIN b[m].commands \cup {ns}
        /\ \A n \in DOMAIN b[m].commands \ {ns} : objs[m].commands[n] = b[m].commands[n]

\* C14, as stated: registering a command with a namespace (the namespace keyword
\* first, else the command's namespace attribute) puts it, under its own
\* name, into the one sub-Manager stored under the namespace name in the
\* registering manager, created on first use and reused afterwards, and
\* adds nothing else to the registering manager's own table.
C14_NamespaceGroupsCommands == NamespacedCall => Grouped

\* the namespace name is held, in the registering manager, by an entry
\* that is not a Manager
NamespaceNameTaken ==
    /\ RegNamespace \in DOMAIN reg.before[reg.m].commands
    /\ reg.before[reg.before[reg.m].commands[RegNamespace]].kind # "manager"

\* C14, amended: the same, unless the namespace name is held in the
\* registering manager by an entry that is not a Manager: then add_command
\* raises AttributeError and no command table changes
NamespaceGroupsUnlessTaken ==
    NamespacedCall =>
        IF NamespaceNameTaken
        THEN /\ reg.raised = "AttributeError"
             /\ \A o \in DOMAIN reg.before : objs[o].commands = reg.before[o].commands
        ELSE reg.raised = "" /\ Grouped

\* two commands in one group, the second with a namespace attribute that
\* the keyword overrides
NamespaceReused ==
    /\ NamespacedCall /\ reg.n = 2 /\ reg.raised = ""
    /\ reg.namespace = "grp" /\ reg.before[reg.id].namespace = "ns"
    /\ "grp" \in DOMAIN reg.before[reg.m].commands
    /\ Cardinality(DOMAIN objs[objs[reg.m].commands["grp"]].commands) = 2
    /\ Grouped

\* the namespace name is held by a plain command: AttributeError
NamespaceTaken ==
    /\ NamespacedCall /\ reg.raised = "AttributeError"
    /\ objs[reg.m].commands = reg.before[reg.m].commands

(***************************************************************************)
(* Registration names.  The last call is an add_command that did not       *)
(* raise; RegTable is the table its command went into.                     *)
(***************************************************************************)
AddCommandCall == reg.op = "add_command" /\ reg.raised = ""

RegTable ==
    IF RegNamespace # ""
    THEN objs[objs[reg.m].commands[RegNamespace]].commands
    ELSE objs[reg.m].commands

\* the table holds, under name, the object given, or a new instance of it
\* when a class was given
StoredUnder(name) ==
    /\ name \in DOMAIN RegTable
    /\ LET c == RegTable[name]
           given == reg.before[reg.id]
       IN  /\ objs[c].cls = given.cls
           /\ ~objs[c].is_class
           /\ IF given.is_class THEN c \notin DOMAIN reg.before ELSE c = reg.id

\* the name chosen for a call without a name, when the class name that
\* counts is classname
ChosenName(classname) ==
    IF reg.name # "" THEN reg.name
    ELSE IF reg.before[reg.id].name # "" THEN reg.before[reg.id].name
    ELSE StripCommand(Lower(classname))

\* C15: add_command registers under the explicit name when there is one,
\* else under the command's name attribute when it has one, else under the
\* lower-cased class name of the command without a trailing 'command'; a
\* class is stored as an instance of it under that name.
C15_RegistrationName ==
    AddCommandCall => StoredUnder(ChosenName(reg.before[reg.id].cls))

\* the same, with the class name taken from the argument as it was passed:
\* for a class that is 'type'
RegistrationNameOfArgument ==
    AddCommandCall =>
        StoredUnder(ChosenName(IF reg.before[reg.id].is_class THEN "type"
                               ELSE reg.before[reg.id].cls))

\* an instance without a name attribute, registered without a name
DerivedNameReached ==
    /\ AddCommandCall /\ reg.name = "" /\ reg.before[reg.id].cls = "NamedCommand"
    /\ "named" \in DOMAIN RegTable /\ RegTable["named"] = reg.id

\* a class registered without a name
ClassUnderType ==
    /\ AddCommandCall /\ reg.name = "" /\ reg.before[reg.id].is_class
    /\ "type" \in DOMAIN RegTable /\ "simple" \notin DOMAIN RegTable

(***************************************************************************)
(* Overriding.  The last call registered a command in the table of reg.m   *)
(* under a name that was in that table already.                            *)
(***************************************************************************)
RegisteredName ==
    IF reg.op = "add_command" THEN CommandName(reg.before[reg.id], reg.name)
    ELSE reg.func.name

DirectCall ==
    \/ reg.op = "add_command" /\ reg.raised = "" /\ RegNamespace = ""
    \/ reg.op \in {"command", "option"}

NameInUse == DirectCall /\ RegisteredName \in DOMAIN reg.before[reg.m].commands

\* the body and the options the call declares
DeclaredBody ==
    IF reg.op = "add_command" THEN reg.before[reg.id].run ELSE reg.func.id

DeclaredOptions ==
    CASE reg.op = "add_command" -> CommandOptions(reg.before, reg.id)
      [] reg.op = "command" ->
            [i \in 1..Len(getargspec(reg.func).args) |-> CommandOption(getargspec(reg.func), i)]
      [] reg.op = "option" -> <<reg.option>>

\* the entry of the name has the declared body and options
Overrides ==
    LET c == objs[reg.m].commands[RegisteredName]
    IN  objs[c].run = DeclaredBody /\ CommandOptions(objs, c) = DeclaredOptions

\* every other entry of the table is the object it was, with the body and
\* the options it had
OthersKept ==
    \A n \in DOMAIN reg.before[reg.m].commands \ {RegisteredName} :
        LET c == reg.before[reg.m].commands[n]
        IN  /\ objs[reg.m].commands[n] = c
            /\ objs[c].run = reg.before[c].run
            /\ CommandOptions(objs, c) = CommandOptions(reg.before, c)

\* C16: a command registered with add_command, @command or @option under
\* a name already in use overrides the earlier one: the name's entry has
\* the new body and the newly declared options, and no other entry changes.
C16_RegistrationOverrides == NameInUse => Overrides /\ OthersKept

\* add_command and @command do override
AddCommandOverrides == NameInUse /\ reg.op # "option" => Overrides /\ OthersKept

\* @option on a name in use keeps the entry and its body, and appends the
\* option to that entry's option_list
OptionKeepsEntry ==
    NameInUse /\ reg.op = "option" /\ reg.raised = "" =>
        LET c == reg.before[reg.m].commands[RegisteredName]
            list == IF reg.before[c].option_list = "instance" THEN c ELSE CommandClass
        IN  /\ objs[reg.m].commands[RegisteredName] = c
            /\ objs[c].run = reg.before[c].run
            /\ objs[list].options = Append(reg.before[list].options, reg.option)

\* @command replaces the default shell
ShellOverridden ==
    /\ NameInUse /\ reg.op = "command" /\ RegisteredName = "shell" /\ reg.m = Root
    /\ objs[objs[Root].commands["shell"]].run = "shell()"

\* @option on the default shell: the Shell command stays, and the option is
\* in Command.option_list
ShellKept ==
    /\ NameInUse /\ reg.op = "option" /\ RegisteredName = "shell" /\ reg.m = Root
    /\ objs[objs[Root].commands["shell"]].run = "Shell"
    /\ objs[CommandClass].options = <<OptUrl>>

(***************************************************************************)
(* The @command decorator.  Parameters are those of the def, the receiver  *)
(* of a method included.                                                   *)
(***************************************************************************)
Parameters(func) == (IF func.bound THEN <<"self">> ELSE <<>>) \o func.args

CommandCall == reg.op = "command"

\* the command the last @command registered
Decorated == objs[reg.m].commands[reg.func.name]

FunctionCommands == {c \in DOMAIN objs : objs[c].kind = "command" /\ objs[c].option_list = "instance"}

Dispatched(c) == Handled /\ func_handle = c

BooleanOptions(c) == {i \in DOMAIN objs[c].options : IsBool(objs[c].options[i].default)}

FlagGiven(o) == \E j \in DOMAIN argv : argv[j] \in Range(o.args)

Opposite(b) == IF b = "True" THEN "False" ELSE "True"

\* a plain token right after a boolean flag is not its value: it is left
\* over, and the line is rejected
BooleanFlagTakesNoValue ==
    \A c \in FunctionCommands : \A i \in BooleanOptions(c) :
        (/\ Handled
         /\ \E j \in DOMAIN argv : /\ argv[j] \in Range(objs[c].options[i].args)
                                   /\ j < Len(argv) /\ ~IsFlag(argv[j + 1]))
        => func_handle = NoHandle

\* C18: a command derived from a function with a boolean default gets the
\* default when the flag is absent and the opposite of the default when its
\* short or long form is given; the flag consumes no value token.
C18_BooleanFlagToggles ==
    /\ \A c \in FunctionCommands : \A i \in BooleanOptions(c) :
          LET o == objs[c].options[i]
          IN  Dispatched(c) =>
                 kwargs[o.dest] = IF FlagGiven(o) THEN Opposite(o.default) ELSE o.default
    /\ BooleanFlagTakesNoValue

\* the flag stores True whatever the default is
BooleanFlagStoresTrue ==
    /\ \A c \in FunctionCommands : \A i \in BooleanOptions(c) :
          LET o == objs[c].options[i]
          IN  Dispatched(c) =>
                 kwargs[o.dest] = IF FlagGiven(o) THEN "True" ELSE o.default
    /\ BooleanFlagTakesNoValue

\* verify --debug, with debug=True the default: debug is True
DefaultTrueFlagGiven ==
    /\ argv = <<"verify", "--debug">> /\ pc = "done" /\ bodyRuns = 1
    /\ kwargs = [verified |-> "False", debug |-> "True"]

(***************************************************************************)
(* @command on a bound method.                                             *)
(***************************************************************************)
MethodCommands == {c \in FunctionCommands : objs[c].run = MethodHello.id}

HelloLine(c, args) ==
    /\ "hello" \in DOMAIN objs[Root].commands /\ objs[Root].commands["hello"] = c
    /\ Handled /\ ~defaulted /\ argv = <<"hello">> \o args

\* C19: Manager.command on a bound method derives no flag for the
\* receiver: for def hello(self, name), 'hello joe' binds name to 'joe' and
\* the body runs.
C19_MethodReceiverSkipped ==
    \A c \in MethodCommands :
        /\ \A i \in DOMAIN objs[c].options : objs[c].options[i].dest # "self"
        /\ HelloLine(c, <<"P">>) =>
              /\ func_handle = c
              /\ kwargs = [name |-> "P"]
              /\ pc \in {"leave", "exit", "done"} => bodyRuns = 1
              /\ pc # "escaped"

\* the receiver gets the first positional flag; 'hello joe' is one token
\* short and exits with code 2; with two tokens the call of Command.handle
\* raises TypeError, after the application was made; the body never runs
MethodReceiverIsPositional ==
    \A c \in MethodCommands :
        /\ objs[c].options = <<Option(<<"self">>, "self", "store", "None"),
                               Option(<<"name">>, "name", "store", "None")>>
        /\ HelloLine(c, <<"P">>) =>
              /\ func_handle = NoHandle /\ result = PyInt(2) /\ bodyRuns = 0
              /\ pc \in {"exit", "done"}
              /\ pc = "done" => exitCode = PyInt(2)
        /\ HelloLine(c, <<"P", "P">>) =>
              /\ func_handle = c /\ kwargs = [self |-> "P", name |-> "P"]
              /\ bodyRuns = 0
              /\ pc \in {"create_app", "command_handle", "escaped"}
              /\ pc = "escaped" => escaped = TypeError /\ factoryCalls = 1

HelloJoeExits2 ==
    \E c \in MethodCommands :
        HelloLine(c, <<"P">>) /\ pc = "done" /\ exitCode = PyInt(2) /\ bodyRuns = 0

HelloTypeError ==
    \E c \in MethodCommands :
        HelloLine(c, <<"P", "P">>) /\ pc = "escaped" /\ escaped = TypeError

(***************************************************************************)
(* Required positionals.  PositionalCommands: the commands of the root     *)
(* whose options are all positionals; a line for one is its name and then  *)
(* plain tokens only.                                                      *)
(***************************************************************************)
PositionalCommands ==
    {c \in DOMAIN objs :
        /\ objs[c].kind = "command"
        /\ \E n \in DOMAIN objs[Root].commands : objs[Root].commands[n] = c
        /\ \A i \in DOMAIN CommandOptions(objs, c) : ~IsFlag(CommandOptions(objs, c)[i].args[1])}

PositionalLine(c) ==
    /\ Handled /\ Len(argv) >= 1
    /\ argv[1] \in DOMAIN objs[Root].commands /\ objs[Root].commands[argv[1]] = c
    /\ \A j \in 2..Len(argv) : ~IsFlag(argv[j])

\* the body runs with the i-th token as the i-th positional
PositionalsBound(c) ==
    /\ func_handle = c
    /\ \A i \in DOMAIN CommandOptions(objs, c) :
          kwargs[CommandOptions(objs, c)[i].dest] = argv[i + 1]
    /\ pc \in {"leave", "exit", "done", "escaped"} => bodyRuns = 1

\* exit code 2, without the body
PositionalsRejected ==
    /\ func_handle = NoHandle /\ bodyRuns = 0 /\ factoryCalls = 0
    /\ result = PyInt(2) /\ pc \in {"exit", "done"}
    /\ pc = "done" => exitCode = PyInt(2)

\* C20: a command whose flags are n required positionals runs its body with
\* the i-th token bound to the i-th positional when given exactly n
\* tokens, and exits with code 2 without running the body when given fewer
\* or more.
C20_RequiredPositionals ==
    \A c \in PositionalCommands :
        PositionalLine(c) =>
            IF Len(argv) - 1 = Len(CommandOptions(objs, c))
            THEN PositionalsBound(c)
            ELSE PositionalsRejected

\* the same for the commands none of whose positionals is named like a
\* parameter of Command.handle
PositionalsOfOwnNames ==
    \A c \in PositionalCommands :
        (/\ PositionalLine(c)
         /\ \A i \in DOMAIN CommandOptions(objs, c) :
               CommandOptions(objs, c)[i].dest \notin {"self", "app"})
        => IF Len(argv) - 1 = Len(CommandOptions(objs, c))
           THEN PositionalsBound(c)
           ELSE PositionalsRejected

\* two positionals, two different tokens, in order
TwoPositionalsBound ==
    /\ argv = <<"two", "P", "one">> /\ pc = "done" /\ bodyRuns = 1
    /\ kwargs = [x |-> "P", y |-> "one"]

\* one token too many
OneTokenTooMany ==
    /\ argv = <<"one", "P", "P">> /\ pc = "done" /\ exitCode = PyInt(2) /\ bodyRuns = 0

(***************************************************************************)
(* Help.  HelpIndex is the place of the first help token of the line;      *)
(* ParserReached is the parser that reads token number stop when the       *)
(* tokens before it are read without error: names of the current           *)
(* manager's table lead one parser down, the value of a flag is skipped.   *)
(***************************************************************************)
HelpGiven == \E j \in DOMAIN argv : argv[j] \in HelpAction.flags

HelpIndex == CHOOSE j \in DOMAIN argv :
                /\ argv[j] \in HelpAction.flags
                /\ \A k \in 1..(j - 1) : argv[k] \notin HelpAction.flags

RECURSIVE ParserReached(_, _, _, _, _, _)
ParserReached(h, node, m, args, j, stop) ==
    IF j >= stop THEN node
    ELSE LET tok == args[j]
             opts == IF h[node].kind = "command"
                     THEN get_options(h, m) \o CommandOptions(h, node)
                     ELSE get_options(h, node)
             decl == Declares(opts, tok)
         IN  IF IsFlag(tok)
             THEN IF decl # {} /\ TakesValue(opts[CHOOSE k \in decl : TRUE])
                  THEN ParserReached(h, node, m, args, j + 2, stop)
                  ELSE ParserReached(h, node, m, args, j + 1, stop)
             ELSE IF h[node].kind = "manager" /\ tok \in DOMAIN h[node].commands
             THEN ParserReached(h, h[node].commands[tok], node, args, j + 1, stop)
             ELSE ParserReached(h, node, m, args, j + 1, stop)

NotDispatched ==
    /\ func_handle = NoHandle /\ factoryCalls = 0 /\ bodyRuns = 0
    /\ application = "none" /\ pc \in {"exit", "done"}

HelpPrinted ==
    /\ printed = "help" /\ result = PyInt(0)
    /\ helpParser = ParserReached(objs, Root, Root, argv, 1, HelpIndex)
    /\ pc = "done" => exitCode = PyInt(0)

ErrorPrinted ==
    /\ printed = "error" /\ result = PyInt(2)
    /\ pc = "done" => exitCode = PyInt(2)

ErrorBeforeHelp ==
    /\ argv = <<"P", "-h">> /\ pc = "done" /\ printed = "error" /\ exitCode = PyInt(2)

(***************************************************************************)
(* Options read at dispatch.  OwnOptions(c): what get_options() of command *)
(* c gives when the parser is built, for a command with a list of its own  *)
(* or a get_options of its own.                                            *)
(***************************************************************************)
OwnOptions(c) == objs[c].options

DynamicCommands ==
    {c \in DOMAIN objs : objs[c].kind = "command" /\ objs[c].cls = "CommandWithDynamicOptions"}

NameOf(c) == CHOOSE n \in DOMAIN objs[Root].commands : objs[Root].commands[n] = c

\* the line names command c and gives flag f with the value P
FlagLine(c, f) == Handled /\ ~defaulted /\ argv = <<NameOf(c), f, "P">>

AddedFlagAccepted ==
    /\ argv = <<"greet", "--name", "P">> /\ pc = "done" /\ bodyRuns = 1
    /\ kwargs = [name |-> "P", url |-> "None"]


(***************************************************************************)
(* C23: default_command                                                    *)
(***************************************************************************)
\* the command line run() dispatches: the default command alone when one is
\* given and nothing was typed, the typed line otherwise
LineOfRun ==
    IF default_command # "" /\ typed = <<>> THEN <<default_command>> ELSE typed

\* C23: run(default_command=d) dispatches d exactly when nothing but the
\* program name is on the command line, with the outcome of the line that
\* holds d alone and exit code 0 when its body succeeds; any typed argument
\* makes run ignore the default and dispatch the typed line as it is.
C23_DefaultCommand ==
    pc # "idle"
    => /\ defaulted <=> (default_command # "" /\ typed = <<>>)
       /\ argv = LineOfRun
       /\ (Handled /\ defaulted) =>
            \A o \in {handle(objs, <<default_command>>)} :
                /\ printed = o.printed
                /\ func_handle = o.func_handle
                /\ kwargs = o.kwargs
                /\ positional_args = o.positional_args
       /\ (defaulted /\ pc = "done" /\ bodyRuns = 1
             /\ bodyOutcome = [kind |-> "return", value |-> None])
            => /\ func_handle = objs[Root].commands[default_command]
               /\ exitCode = PyInt(0)

\* the default command ran for an empty line and the process exits with 0
DefaultDispatched ==
    /\ pc = "done"
    /\ typed = <<>>
    /\ default_command = "simple"
    /\ bodyRuns = 1
    /\ func_handle = objs[Root].commands["simple"]
    /\ exitCode = PyInt(0)

\* a default is given, another command is typed and is the one that runs
DefaultIgnored ==
    /\ pc = "done"
    /\ default_command = "simple"
    /\ typed = <<"other">>
    /\ bodyRuns = 1
    /\ func_handle = objs[Root].commands["other"]


(***************************************************************************)
(* C24: option groups                                                      *)
(***************************************************************************)
GroupCalled == group # NoGroup
Set(x) == Truthy(x)

\* C24: Group(...) raises TypeError exactly when a title or a description
\* is set together with required or exclusive, and makes the object for
\* every other combination; Command.create_parser then makes an argparse
\* group of every object that was made, so the clash never shows at
\* dispatch.
C24_GroupRejectedAtConstruction ==
    GroupCalled
    => /\ group.made.kind \in {"raise", "group"}
       /\ group.made.kind = "raise"
            <=> ((Set(group.call.title) \/ Set(group.call.description))
                   /\ (Set(group.call.required) \/ Set(group.call.exclusive)))
       /\ group.made.kind = "raise" =>
            /\ group.made.value = TypeError
            /\ argument_group = NoGroup
       /\ argument_group # NoGroup =>
            /\ argument_group.kind \in {"mutually_exclusive", "argument_group"}
            /\ argument_group.kind = "mutually_exclusive"
                 <=> Set(group.call.exclusive)
            /\ argument_group.kind = "mutually_exclusive"
                 => ~Set(group.call.title) /\ ~Set(group.call.description)

\* a description with required=True is refused
DescriptionWithRequired ==
    /\ GroupCalled
    /\ group.call.title = None
    /\ group.call.description = PyStr(1)
    /\ group.call.required = PyBool(TRUE)
    /\ group.call.exclusive = None
    /\ group.made = [kind |-> "raise", value |-> TypeError]

\* a required exclusive group is made and becomes a mutually exclusive
\* group of the parser
ExclusiveGroupMade ==
    /\ GroupCalled
    /\ group.call.exclusive = PyBool(TRUE)
    /\ group.call.required = PyBool(TRUE)
    /\ group.made.kind = "group"
    /\ argument_group # NoGroup
    /\ argument_group.kind = "mutually_exclusive"


(***************************************************************************)
(* C25: the phases of a dispatch                                           *)
(***************************************************************************)
\* the phases in their order: parsing (global flags, the command name and
\* the command's flags are one pass over the line, see Scan), building the
\* application, the call of the body, the end
Phase(p) ==
    CASE p = "idle" -> 0
      [] p = "handle" -> 1
      [] p = "create_app" -> 2
      [] p \in {"command_handle", "body", "leave"} -> 3
      [] p = "exit" -> 4
      [] p \in {"done", "escaped"} -> 5

\* the statements of Command.handle in their order
Statement(p) ==
    CASE p = "command_handle" -> 1
      [] p = "body" -> 2
      [] p = "leave" -> 3
      [] OTHER -> 0

Terminal == pc \in {"done", "escaped"}

\* one step of a dispatch keeps the order of the phases and leaves out
\* none but the later ones; the factory is called in its phase only, the
\* body after it and once; the end is an exit code or an escaped error
PhaseStep ==
    /\ ~Terminal
    /\ Phase(pc') > Phase(pc)
         \/ (Phase(pc') = Phase(pc) /\ Statement(pc') > Statement(pc))
    /\ Phase(pc') = 2 => Phase(pc) = 1
    /\ Phase(pc') = 3 => Phase(pc) \in {2, 3}
    /\ factoryCalls' # factoryCalls =>
         /\ pc = "create_app"
         /\ factoryCalls = 0 /\ factoryCalls' = 1
         /\ bodyRuns = 0
    /\ bodyRuns' # bodyRuns =>
         /\ pc = "body"
         /\ bodyRuns = 0 /\ bodyRuns' = 1
         /\ application # "none"
         /\ func_handle' = func_handle
    /\ pc' = "done" => exitCode' # None /\ escaped' = None
    /\ pc' = "escaped" => exitCode' = None /\ escaped' # None

\* the next statement of run can be executed: Manager.handle gives one of
\* its four results for the line, and every other statement has its step
CanStep ==
    IF pc = "handle"
    THEN handle(objs, argv).kind \in {"raise", "return", "exit", "dispatch"}
    ELSE ENABLED Next

\* C25: a dispatch takes its phases in the order parse, build the
\* application, call the body, and ends in exactly one outcome, an exit
\* code or an escaped error; the factory is called at most once and before
\* the body, and at most one body runs, at most once.  Every step moves
\* forward in the order, and a step can be taken as long as the end is
\* not reached, so that the dispatch comes to its end.
C25_PhasesInOrder == [][PhaseStep]_vars /\ [](~Terminal => CanStep)

\* a dispatch that went through every phase: factory, body, exit code
AllPhasesDone ==
    /\ pc = "done"
    /\ factoryCalls = 1
    /\ bodyRuns = 1
    /\ exitCode # None
    /\ escaped = None

\* a dispatch that ends in the parser, with neither factory nor body
EndedInParser ==
    /\ pc = "done"
    /\ factoryCalls = 0
    /\ bodyRuns = 0
    /\ exitCode = PyInt(2)


(***************************************************************************)
(* C26: dispatch reads the registrations only                              *)
(***************************************************************************)
\* the registration state: the command table and the option list of every
\* manager and every command
Registrations(h) ==
    [o \in DOMAIN h |-> [commands |-> h[o].commands, options |-> h[o].options]]

HelpWithRegistrationsKept ==
    /\ pc = "done"
    /\ printed = "help"
    /\ argv # <<>>
    /\ objs \in Managers


(***************************************************************************)
(* C27: an option added to one command                                     *)
(***************************************************************************)
\* the command the call adds the option to: the receiver of add_option, or
\* the command that holds the name of the function @option decorates
OptionTarget ==
    IF reg.op = "Command.add_option" THEN reg.id
    ELSE reg.before[reg.m].commands[reg.name]

\* an option was added to a command that was there before the call
OptionAdded ==
    /\ reg.raised = ""
    /\ \/ reg.op = "Command.add_option"
       \/ /\ reg.op = "option"
          /\ reg.name \in DOMAIN reg.before[reg.m].commands
          /\ reg.before[reg.before[reg.m].commands[reg.name]].kind = "command"

\* C27: after Command.add_option on one command, or @option on a name that
\* a command holds, get_options() of every other command instance gives the
\* options it gave before the call.
C27_AddOptionLocal ==
    OptionAdded
    => \A c \in CommandInstances(reg.before) \ {OptionTarget} :
          CommandOptions(objs, c) = CommandOptions(reg.before, c)

\* what holds: the commands that changed are those that share the list
\* the option was appended to, the list of class Command
AddOptionSharedList ==
    OptionAdded
    => \A c \in CommandInstances(reg.before) \ {OptionTarget} :
          \/ CommandOptions(objs, c) = CommandOptions(reg.before, c)
          \/ /\ objs[c].option_list = "Command"
             /\ reg.before[OptionTarget].option_list # "instance"
             /\ CommandOptions(objs, c)
                  = Append(CommandOptions(reg.before, c), reg.option)

\* @option on the default shell gives another command the option
OtherCommandChanged ==
    /\ OptionAdded
    /\ reg.op = "option" /\ reg.name = "shell"
    /\ \E c \in CommandInstances(reg.before) \ {OptionTarget} :
          /\ CommandOptions(reg.before, c) = <<>>
          /\ CommandOptions(objs, c) = <<OptUrl>>


(***************************************************************************)
(* C28: parent links                                                       *)
(***************************************************************************)
\* the managers that the table of manager m holds
SubManagersOf(h, m) ==
    {h[m].commands[n] : n \in DOMAIN h[m].commands}
        \cap {o \in DOMAIN h : h[o].kind = "manager"}

\* the managers of the heap
AllManagers(h) == {o \in DOMAIN h : h[o].kind = "manager"}

\* following parent links from o for at most k steps ends at the root
RECURSIVE EndsAtRoot(_, _, _)
EndsAtRoot(h, o, k) ==
    IF o = Root THEN TRUE
    ELSE IF k = 0 \/ h[o].parent = NoParent THEN FALSE
    ELSE EndsAtRoot(h, h[o].parent, k - 1)

\* C28: every manager that the table of another manager holds, put there
\* by add_command, under a namespace or by run(commands=...), has that
\* manager as its parent; the root has no parent; so the parent links of
\* every sub-manager lead to the root.
C28_ParentIsHolder ==
    /\ objs[Root].parent = NoParent
    /\ \A m \in AllManagers(objs) : \A o \in SubManagersOf(objs, m) :
          /\ objs[o].parent = m
          /\ EndsAtRoot(objs, o, Cardinality(DOMAIN objs))

\* what holds of the registration calls: add_command makes the manager
\* it is called on the parent, also of a manager that it stores in the
\* table of a namespace manager, and the links lead to the root
ParentIsRegistrar ==
    /\ objs[Root].parent = NoParent
    /\ \A m \in AllManagers(objs) : \A o \in SubManagersOf(objs, m) :
          /\ objs[o].parent \in {m, objs[m].parent}
          /\ EndsAtRoot(objs, o, Cardinality(DOMAIN objs))

\* run(commands=...) has put a manager into the table; it has no parent
MergedWithoutParent ==
    /\ pc # "idle"
    /\ "extra" \in DOMAIN objs[Root].commands
    /\ objs[objs[Root].commands["extra"]].kind = "manager"
    /\ objs[objs[Root].commands["extra"]].parent = NoParent

\* a manager registered under a namespace: the namespace manager holds it,
\* its parent is the manager add_command was called on
NamespacedManager ==
    /\ reg.op = "add_command" /\ reg.namespace = "grp" /\ reg.raised = ""
    /\ \E g \in SubManagersOf(objs, Root) : \E o \in SubManagersOf(objs, g) :
          objs[o].parent = Root


(***************************************************************************)
(* C29: the end of run in flaskext/script.py                               *)
(***************************************************************************)
ScriptEnded == script # NoScript /\ script.pc \in {"done", "escaped"}

\* no command is named, or the one that is named is not registered
NoSuchCommand ==
    /\ script # NoScript
    /\ script.pc \notin {"idle"}
    /\ script.command = "" \/ script.command \notin script.commands

\* C29: run of flaskext/script.py ends in sys.exit unless the body
\* raises: with 0 after the body, and with 1, after the diagnostic and the
\* usage, when no command is named or the name is not registered, whatever
\* the registry holds, no body having run and no exception leaving run.
C29_ScriptRunExits ==
    ScriptEnded
    => /\ script.pc = "escaped" => script.bodyRuns = 1
       /\ (script.pc = "done" /\ script.bodyRuns = 1) => script.exitCode = PyInt(0)
       /\ NoSuchCommand =>
            /\ script.pc = "done"
            /\ script.exitCode = PyInt(1)
            /\ script.bodyRuns = 0
            /\ Len(script.out) = 2
            /\ script.out[1] \in {"Please provide a command", "Command not found"}
            /\ script.out[2] = "usage"

\* what holds: the same, as long as the registry is not empty
ScriptRunExitsUnlessEmpty ==
    (ScriptEnded /\ script.commands # {})
    => /\ script.pc = "escaped" => script.bodyRuns = 1
       /\ (script.pc = "done" /\ script.bodyRuns = 1) => script.exitCode = PyInt(0)
       /\ NoSuchCommand =>
            /\ script.pc = "done"
            /\ script.exitCode = PyInt(1)
            /\ script.bodyRuns = 0
            /\ script.out = <<IF script.command = ""
                              THEN "Please provide a command"
                              ELSE "Command not found", "usage">>

\* with an empty registry the usage fails: ValueError leaves run
UsageOfEmptyRegistry ==
    /\ ScriptEnded
    /\ script.commands = {}
    /\ script.argv = <<>>
    /\ script.out = <<"Please provide a command">>
    /\ script.escaped = ValueError
    /\ script.exitCode = None

\* an unknown name with commands registered: diagnostic, usage, exit 1
UnknownNameExits1 ==
    /\ ScriptEnded
    /\ script.command = "nosuch"
    /\ script.out = <<"Command not found", "usage">>
    /\ script.exitCode = PyInt(1)

====
